---- MODULE Spec2Model ----
(***************************************************************************)
(* Model of the proxy-converter-core of Clash-converter: the text          *)
(* utilities (core/utils.js), the eight share-link parsers, the eight      *)
(* converters and the dispatcher (index.js).                               *)
(*                                                                         *)
(* A JavaScript string is a sequence of UTF-16 code units (naturals).      *)
(* Literals are written as tuples of one-character strings and turned      *)
(* into code units by S.  A JavaScript value is a record tagged by t.      *)
(***************************************************************************)
EXTENDS Integers, Sequences, FiniteSets, TLC

\* const x = value: the statements after a declaration are the value at x of a
\* function whose domain is that one value
Let(after) == after[CHOOSE value \in DOMAIN after : TRUE]

\* the same for a value that only some of the statements that follow compute:
\* the value is computed where Body reads it
Where(value, Body(_)) == Body(value)
Where2(value1, value2, Body(_, _)) == Body(value1, value2)

(***************************************************************************)
(* Characters and string literals                                          *)
(***************************************************************************)
Printable ==
  <<" ", "!", "\"", "#", "$", "%", "&", "'", "(", ")", "*", "+", ",", "-", ".", "/",
    "0", "1", "2", "3", "4", "5", "6", "7", "8", "9", ":", ";", "<", "=", ">", "?",
    "@", "A", "B", "C", "D", "E", "F", "G", "H", "I", "J", "K", "L", "M", "N", "O",
    "P", "Q", "R", "S", "T", "U", "V", "W", "X", "Y", "Z", "[", "\\", "]", "^", "_",
    "BACKTICK", "a", "b", "c", "d", "e", "f", "g", "h", "i", "j", "k", "l", "m", "n", "o",
    "p", "q", "r", "s", "t", "u", "v", "w", "x", "y", "z", "{", "|", "}", "~">>

\* code unit of a printable ASCII character (the grave accent is written
\* BACKTICK), and of the named characters TAB, LF, NBSP (U+00A0), BOM (U+FEFF)
Code(c) ==
  CASE c = "\t" -> 9
    [] c = "\n" -> 10
    [] c = "NBSP" -> 160
    [] c = "BOM" -> 65279
    [] OTHER -> 31 + (CHOOSE i \in 1..95 : Printable[i] = c)

S(t) == [i \in 1..Len(t) |-> Code(t[i])]

CH_TAB == 9
CH_SP == 32
CH_HASH == 35
CH_PCT == 37
CH_AMP == 38
CH_PLUS == 43
CH_COMMA == 44
CH_MINUS == 45
CH_DOT == 46
CH_SLASH == 47
CH_COLON == 58
CH_SEMI == 59
CH_EQ == 61
CH_QM == 63
CH_AT == 64
CH_LBRACKET == 91
CH_RBRACKET == 93
CH_UNDERSCORE == 95
CH_LBRACE == 123
CH_PIPE == 124
CH_RBRACE == 125
CH_QUOTE == 34
CH_BACKSLASH == 92
CH_REPLACEMENT == 65533
CH_BOM == 65279

IsDigit(c) == c >= 48 /\ c <= 57
IsUpper(c) == c >= 65 /\ c <= 90
IsLowerAL(c) == c >= 97 /\ c <= 122
IsAlpha(c) == IsUpper(c) \/ IsLowerAL(c)
IsHex(c) == IsDigit(c) \/ (c >= 65 /\ c <= 70) \/ (c >= 97 /\ c <= 102)
HexVal(c) == IF IsDigit(c) THEN c - 48 ELSE IF c >= 97 THEN c - 87 ELSE c - 55

\* WhiteSpace and LineTerminator code units of ECMAScript (String.prototype.trim, \s)
IsWhite(c) ==
  \/ c \in {9, 10, 11, 12, 13, 32, 160, 5760, 8232, 8233, 8239, 8287, 12288, 65279}
  \/ (c >= 8192 /\ c <= 8202)

(***************************************************************************)
(* String.prototype methods                                                *)
(***************************************************************************)
\* s.slice(from, to) with 0-based from (inclusive) and to (exclusive)
\* (a negative index counts from the end, and both are clamped to the string)
SliceIndex(s, i) == IF i < 0 THEN (IF Len(s) + i < 0 THEN 0 ELSE Len(s) + i)
                    ELSE IF i > Len(s) THEN Len(s) ELSE i
Slice(s, from, to) == SubSeq(s, SliceIndex(s, from) + 1, SliceIndex(s, to))
SliceFrom(s, from) == SubSeq(s, SliceIndex(s, from) + 1, Len(s))

RECURSIVE TrimStart(_)
TrimStart(s) == IF s # <<>> /\ IsWhite(Head(s)) THEN TrimStart(Tail(s)) ELSE s

RECURSIVE TrimEnd(_)
TrimEnd(s) ==
  IF s # <<>> /\ IsWhite(s[Len(s)]) THEN TrimEnd(SubSeq(s, 1, Len(s) - 1)) ELSE s

Trim(s) == TrimEnd(TrimStart(s))

\* toLowerCase on one code unit: ASCII, Latin-1 capitals and the Kelvin sign
\* (the only non-ASCII character whose lower case is an ASCII letter)
LowerChar(c) ==
  IF IsUpper(c) THEN c + 32
  ELSE IF c >= 192 /\ c <= 222 /\ c # 215 THEN c + 32
  ELSE IF c = 8490 THEN 107
  ELSE c

ToLowerCase(s) == [i \in 1..Len(s) |-> LowerChar(s[i])]

StartsWith(s, p) == Len(s) >= Len(p) /\ SubSeq(s, 1, Len(p)) = p
EndsWith(s, p) == Len(s) >= Len(p) /\ SubSeq(s, Len(s) - Len(p) + 1, Len(s)) = p

\* s.indexOf(p): 0-based index of the first occurrence, -1 when absent
IndexOf(s, p) ==
  Let([hits \in {{i \in 0..(Len(s) - Len(p)) : SubSeq(s, i + 1, i + Len(p)) = p}} |->
    IF hits = {} THEN -1 ELSE CHOOSE i \in hits : \A j \in hits : i <= j])

LastIndexOf(s, p) ==
  Let([hits \in {{i \in 0..(Len(s) - Len(p)) : SubSeq(s, i + 1, i + Len(p)) = p}} |->
    IF hits = {} THEN -1 ELSE CHOOSE i \in hits : \A j \in hits : i >= j])

Includes(s, p) == IndexOf(s, p) >= 0

CountChar(s, c) == Cardinality({i \in 1..Len(s) : s[i] = c})

\* the least index from i at which Hit holds, Len(s) + 1 when there is none
FirstAt(s, i, Hit(_)) ==
  Where({k \in i..Len(s) : Hit(k)}, LAMBDA hits :
    IF hits = {} THEN Len(s) + 1 ELSE CHOOSE k \in hits : \A j \in hits : k <= j)

\* s.split(separator) for a set of one-character separators (/[&;]/ or ",")
SplitOn(s, seps) ==
  Let([hits \in {{i \in 1..Len(s) : s[i] \in seps}} |->
    [j \in 1..(Cardinality(hits) + 1) |->
       SubSeq(s,
              IF j = 1 THEN 1
              ELSE 1 + CHOOSE p \in hits : Cardinality({q \in hits : q <= p}) = j - 1,
              IF j > Cardinality(hits) THEN Len(s)
              ELSE (CHOOSE p \in hits : Cardinality({q \in hits : q <= p}) = j) - 1)]])

\* s.replace(/c/g, d) for single characters
ReplaceChar(s, c, d) == [i \in 1..Len(s) |-> IF s[i] = c THEN d ELSE s[i]]

\* s.replace(/\s+/g, "")
RemoveWhite(s) == SelectSeq(s, LAMBDA c : ~IsWhite(c))

(***************************************************************************)
(* JavaScript values                                                       *)
(***************************************************************************)
Undefined == [t |-> "undefined"]
Null == [t |-> "null"]
Str(s) == [t |-> "string", v |-> s]
Bool(b) == [t |-> "boolean", v |-> b]
\* a number: k is "int" (v is the value), "frac" (a finite non-integer: sign
\* neg, integer part v and decimal digits f), "nan" or "inf"
Num(n) == [t |-> "number", k |-> "int", v |-> n]
Frac(neg, whole, digits) == [t |-> "number", k |-> "frac", v |-> whole, neg |-> neg, f |-> digits]
NaN == [t |-> "number", k |-> "nan", v |-> 0]
\* an object is the sequence of its own <<key, value>> entries in insertion
\* order; an array is the sequence of its elements
Obj(entries) == [t |-> "object", v |-> entries]
Arr(items) == [t |-> "array", v |-> items]

IsNullish(x) == x.t \in {"undefined", "null"}
IsStr(x) == x.t = "string"

HasKey(o, key) == \E i \in 1..Len(o.v) : o.v[i][1] = key
\* o[key] for an own property (undefined when absent)
Get(o, key) ==
  IF HasKey(o, key)
  THEN o.v[CHOOSE i \in 1..Len(o.v) : o.v[i][1] = key][2]
  ELSE Undefined
\* o[key] = val
Put(o, key, val) ==
  IF HasKey(o, key)
  THEN Obj([i \in 1..Len(o.v) |-> IF o.v[i][1] = key THEN <<key, val>> ELSE o.v[i]])
  ELSE Obj(Append(o.v, <<key, val>>))

\* a ?? b
Coalesce(a, b) == IF IsNullish(a) THEN b ELSE a

(***************************************************************************)
(* Built-ins: decodeURIComponent, UTF-8, Base64                            *)
(***************************************************************************)
Threw == [ok |-> FALSE, v |-> <<>>]
Returned(v) == [ok |-> TRUE, v |-> v]

HexPairAt(s, i) == i + 2 <= Len(s) /\ s[i] = CH_PCT /\ IsHex(s[i + 1]) /\ IsHex(s[i + 2])
ByteAt(s, i) == 16 * HexVal(s[i + 1]) + HexVal(s[i + 2])

\* number of octets announced by a UTF-8 lead byte (0: not a lead byte)
Utf8Octets(b) ==
  IF b >= 192 /\ b <= 223 THEN 2
  ELSE IF b >= 224 /\ b <= 239 THEN 3
  ELSE IF b >= 240 /\ b <= 247 THEN 4
  ELSE 0

IsCont(b) == b >= 128 /\ b <= 191

Utf8CodePoint(o) ==
  IF Len(o) = 2 THEN (o[1] - 192) * 64 + (o[2] - 128)
  ELSE IF Len(o) = 3 THEN (o[1] - 224) * 4096 + (o[2] - 128) * 64 + (o[3] - 128)
  ELSE (o[1] - 240) * 262144 + (o[2] - 128) * 4096 + (o[3] - 128) * 64 + (o[4] - 128)

\* shortest form, no surrogate, at most U+10FFFF
ValidCodePoint(n, cp) ==
  IF n = 2 THEN cp >= 128
  ELSE IF n = 3 THEN cp >= 2048 /\ ~(cp >= 55296 /\ cp <= 57343)
  ELSE cp >= 65536 /\ cp <= 1114111

\* UTF-16 code units of a code point
Utf16(cp) ==
  IF cp < 65536 THEN <<cp>>
  ELSE <<55296 + ((cp - 65536) \div 1024), 56320 + ((cp - 65536) % 1024)>>

\* the escape sequence at s[i] = "%": whether it is well formed, the number of
\* characters it takes and the code units it stands for
PercentUnit(s, i) ==
  IF ~HexPairAt(s, i) THEN [ok |-> FALSE, n |-> 0, out |-> <<>>]
  ELSE Let([b \in {ByteAt(s, i)} |->
       Let([n \in {Utf8Octets(b)} |->
         IF b < 128 THEN [ok |-> TRUE, n |-> 3, out |-> <<b>>]
         ELSE IF n = 0 \/ i + 3 * n - 1 > Len(s) THEN [ok |-> FALSE, n |-> 0, out |-> <<>>]
         ELSE IF \E k \in 1..(n - 1) :
                   ~HexPairAt(s, i + 3 * k) \/ ~IsCont(ByteAt(s, i + 3 * k))
              THEN [ok |-> FALSE, n |-> 0, out |-> <<>>]
         ELSE Let([cp \in {Utf8CodePoint([k \in 1..n |-> ByteAt(s, i + 3 * (k - 1))])} |->
                [ok |-> ValidCodePoint(n, cp), n |-> 3 * n, out |-> Utf16(cp)]])])])

RECURSIVE DecodeFrom(_, _)
DecodeJoin(pre, rest) == IF rest.ok THEN Returned(pre \o rest.v) ELSE Threw
DecodeUnit(s, from, i, u) ==
  IF u.ok THEN DecodeJoin(SubSeq(s, from, i - 1) \o u.out, DecodeFrom(s, i + u.n)) ELSE Threw
\* the characters up to the next "%" (at i) stand for themselves
DecodeRun(s, from, i) ==
  IF i > Len(s) THEN Returned(SubSeq(s, from, Len(s))) ELSE DecodeUnit(s, from, i, PercentUnit(s, i))
DecodeFrom(s, from) == DecodeRun(s, from, FirstAt(s, from, LAMBDA k : s[k] = CH_PCT))

\* decodeURIComponent(s): returns the decoded string or throws URIError
decodeURIComponent(s) == DecodeFrom(s, 1)

\* TextDecoder("utf-8", {fatal: false}) / Buffer#toString("utf8") on a byte
\* sequence: every maximal ill-formed subpart becomes U+FFFD
\* the unit at b[i] >= 128: the number of bytes it takes and its code units
Utf8Unit(b, i) ==
  Let([b1 \in {b[i]} |->
  Let([n \in {IF b1 >= 194 THEN Utf8Octets(b1) ELSE 0},
        lo \in {IF b1 = 224 THEN 160 ELSE IF b1 = 240 THEN 144 ELSE 128},
        hi \in {IF b1 = 237 THEN 159 ELSE IF b1 = 244 THEN 143 ELSE 191} |->
  \* number of continuation bytes that are present and in range
  Let([good \in {Cardinality({k \in 1..(n - 1) :
                    \A j \in 1..k :
                       /\ i + j <= Len(b)
                       /\ IF j = 1 THEN b[i + j] >= lo /\ b[i + j] <= hi
                                   ELSE IsCont(b[i + j])})} |->
    IF n = 0 \/ b1 > 244 THEN [n |-> 1, out |-> <<CH_REPLACEMENT>>]
    ELSE IF good < n - 1 THEN [n |-> 1 + good, out |-> <<CH_REPLACEMENT>>]
    ELSE [n |-> n, out |-> Utf16(Utf8CodePoint([k \in 1..n |-> b[i + k - 1]]))]])])])

RECURSIVE Utf8DecodeFrom(_, _)
Utf8Emit(b, from, i, u) == SubSeq(b, from, i - 1) \o u.out \o Utf8DecodeFrom(b, i + u.n)
\* the bytes up to the next one above 127 (at i) are ASCII characters
Utf8Run(b, from, i) ==
  IF i > Len(b) THEN SubSeq(b, from, Len(b)) ELSE Utf8Emit(b, from, i, Utf8Unit(b, i))
Utf8DecodeFrom(b, from) == Utf8Run(b, from, FirstAt(b, from, LAMBDA k : b[k] >= 128))

Utf8Decode(b) == Utf8DecodeFrom(b, 1)

IsB64Char(c) == IsAlpha(c) \/ IsDigit(c) \/ c = CH_PLUS \/ c = CH_SLASH
B64Val(c) ==
  IF IsUpper(c) THEN c - 65
  ELSE IF IsLowerAL(c) THEN c - 71
  ELSE IF IsDigit(c) THEN c + 4
  ELSE IF c = CH_PLUS THEN 62 ELSE 63

\* the bytes encoded by a run of Base64 characters (leftover bits dropped)
SextetsToBytes(q) ==
  [j \in 1..((Len(q) * 3) \div 4) |->
     Let([r \in {(j - 1) % 3} |->
     Let([g \in {4 * ((j - 1) \div 3)} |->
       IF r = 0 THEN B64Val(q[g + 1]) * 4 + (B64Val(q[g + 2]) \div 16)
       ELSE IF r = 1 THEN (B64Val(q[g + 2]) % 16) * 16 + (B64Val(q[g + 3]) \div 4)
       ELSE (B64Val(q[g + 3]) % 4) * 64 + B64Val(q[g + 4])])])]

(***************************************************************************)
(* Built-ins: String(v), Number.parseInt                                   *)
(***************************************************************************)
RECURSIVE NatToStr(_)
NatToStr(n) == IF n < 10 THEN <<48 + n>> ELSE Append(NatToStr(n \div 10), 48 + (n % 10))

\* Number::toString for the magnitudes that print in decimal notation
NumToStr(x) ==
  CASE x.k = "nan" -> S(<<"N", "a", "N">>)
    [] x.k = "inf" -> (IF x.neg THEN <<CH_MINUS>> ELSE <<>>) \o S(<<"I", "n", "f", "i", "n", "i", "t", "y">>)
    [] x.k = "frac" -> (IF x.neg THEN <<CH_MINUS>> ELSE <<>>) \o NatToStr(x.v) \o <<CH_DOT>> \o x.f
    [] OTHER -> IF x.v < 0 THEN <<CH_MINUS>> \o NatToStr(0 - x.v) ELSE NatToStr(x.v)

RECURSIVE JoinWith(_, _)
JoinWith(parts, sep) ==
  IF parts = <<>> THEN <<>>
  ELSE IF Len(parts) = 1 THEN parts[1]
  ELSE parts[1] \o sep \o JoinWith(Tail(parts), sep)

\* String(v) for the values a share link can give rise to
RECURSIVE ToStr(_)
ToStr(x) ==
  CASE x.t = "string" -> x.v
    [] x.t = "number" -> NumToStr(x)
    [] x.t = "boolean" -> IF x.v THEN S(<<"t", "r", "u", "e">>) ELSE S(<<"f", "a", "l", "s", "e">>)
    [] x.t = "undefined" -> S(<<"u", "n", "d", "e", "f", "i", "n", "e", "d">>)
    [] x.t = "null" -> S(<<"n", "u", "l", "l">>)
    [] x.t = "array" ->
         JoinWith([i \in 1..Len(x.v) |-> IF IsNullish(x.v[i]) THEN <<>> ELSE ToStr(x.v[i])],
                  <<CH_COMMA>>)
    [] OTHER -> S(<<"[", "o", "b", "j", "e", "c", "t", " ", "O", "b", "j", "e", "c", "t", "]">>)

RECURSIVE DigitsValue(_)
DigitsValue(d) == IF d = <<>> THEN 0 ELSE 10 * DigitsValue(SubSeq(d, 1, Len(d) - 1)) + (d[Len(d)] - 48)

\* the longest prefix of s made of decimal digits
DigitPrefix(s) == SubSeq(s, 1, FirstAt(s, 1, LAMBDA k : ~IsDigit(s[k])) - 1)

\* Number.parseInt(s, 10)
ParseInt(s) ==
  Let([t0 \in {TrimStart(s)} |->
  LET neg == t0 # <<>> /\ Head(t0) = CH_MINUS
      t1 == IF t0 # <<>> /\ Head(t0) \in {CH_MINUS, CH_PLUS} THEN Tail(t0) ELSE t0
  IN  Let([d \in {DigitPrefix(t1)} |->
    IF d = <<>> THEN NaN ELSE Num(IF neg THEN 0 - DigitsValue(d) ELSE DigitsValue(d))])])

AllDigits(s) == s # <<>> /\ \A i \in 1..Len(s) : IsDigit(s[i])

(***************************************************************************)
(* core/utils.js                                                           *)
(***************************************************************************)
\* input.replace(/%(?![0-9A-Fa-f]{2})/g, "%25")
RECURSIVE EscapeStrayPercent(_, _)
EscapeStrayPercent(s, from) ==
  Let([i \in {FirstAt(s, from, LAMBDA k : s[k] = CH_PCT /\ ~HexPairAt(s, k))} |->
    IF i > Len(s) THEN SubSeq(s, from, Len(s))
    ELSE SubSeq(s, from, i - 1) \o <<CH_PCT, 50, 53>> \o EscapeStrayPercent(s, i + 1)])

safeDecodeURIComponent(x) ==
  IF IsNullish(x) THEN <<>>
  ELSE Let([input \in {ToStr(x)} |->
       Let([first \in {decodeURIComponent(input)},
             second \in {decodeURIComponent(EscapeStrayPercent(input, 1))} |->
         IF first.ok THEN first.v
         ELSE IF second.ok THEN second.v
         ELSE input])])

normalizeBase64Input(x) ==
  IF IsNullish(x) THEN <<>>
  ELSE Let([raw \in {Trim(ToStr(x))} |->
       LET compact == RemoveWhite(raw)
       IN  Let([normalized \in {ReplaceChar(ReplaceChar(compact, CH_MINUS, CH_PLUS), CH_UNDERSCORE, CH_SLASH)} |->
       LET mod == Len(normalized) % 4
       IN  IF raw = <<>> THEN <<>>
           ELSE IF mod = 2 THEN normalized \o <<CH_EQ, CH_EQ>>
           ELSE IF mod = 3 THEN normalized \o <<CH_EQ>>
           ELSE normalized])])

\* Buffer.from(s, "base64").toString("utf8"): decoding stops at the first
\* "=", the byte order mark is kept
BufferBase64ToUtf8(normalized) ==
  Let([eq \in {IndexOf(normalized, <<CH_EQ>>)} |->
  LET data == IF eq >= 0 THEN Slice(normalized, 0, eq) ELSE normalized
  IN  Utf8Decode(SextetsToBytes(data))])

\* atob(s) followed by TextDecoder: at most two trailing "=" of a string
\* whose length is a multiple of 4 are padding, any other "=" makes atob
\* throw; TextDecoder drops a leading byte order mark
AtobToUtf8(normalized) ==
  LET n == Len(normalized)
      pad == IF n % 4 = 0 /\ n >= 2 /\ normalized[n] = CH_EQ
             THEN (IF normalized[n - 1] = CH_EQ THEN 2 ELSE 1) ELSE 0
  IN  Let([data \in {SubSeq(normalized, 1, n - pad)} |->
  Let([text \in {Utf8Decode(SextetsToBytes(data))} |->
    IF Len(data) % 4 = 1 \/ \E i \in 1..Len(data) : ~IsB64Char(data[i])
    THEN Threw
    ELSE Returned(IF text # <<>> /\ text[1] = CH_BOM THEN Tail(text) ELSE text)])])

\* env is "node" (Buffer is defined) or "browser" (only atob is)
base64DecodeUtf8(env, x) ==
  Let([normalized \in {normalizeBase64Input(x)} |->
    IF normalized = <<>> THEN Null
    ELSE IF \E i \in 1..Len(normalized) : ~(IsB64Char(normalized[i]) \/ normalized[i] = CH_EQ)
         THEN Null
    ELSE IF Len(normalized) % 4 = 1 THEN Null
    ELSE IF env = "node" THEN Str(BufferBase64ToUtf8(normalized))
    ELSE Let([r \in {AtobToUtf8(normalized)} |->
           IF r.ok THEN Str(r.v) ELSE Null])])

IsSchemeChar(c) == IsAlpha(c) \/ IsDigit(c) \/ c \in {CH_PLUS, CH_DOT, CH_MINUS}

\* the match of /^([A-Za-z][A-Za-z0-9+.-]*):/ : length of the scheme, 0 when none
SchemeLen(s) ==
  IF s = <<>> \/ ~IsAlpha(s[1]) THEN 0
  ELSE Let([stops \in {{i \in 1..Len(s) : ~IsSchemeChar(s[i])}} |->
         IF stops = {} THEN 0
         ELSE LET i == CHOOSE k \in stops : \A j \in stops : k <= j
              IN  IF s[i] = CH_COLON THEN i - 1 ELSE 0])

\* splitUrlLoosely forgetting the fragment it cuts off (a variant no parser
\* uses: NameFromFragmentRemarkOrServer fails under it)
splitUrlLooselyDroppingFragment(url) ==
  LET input == IF IsNullish(url) THEN <<>> ELSE ToStr(url)
  IN  Let([s \in {Trim(input)} |->
  Let([hashIndex \in {IndexOf(s, <<CH_HASH>>)} |->
  Let([beforeHash \in {IF hashIndex >= 0 THEN Slice(s, 0, hashIndex) ELSE s},
        fragment \in {Null} |->
  Let([qIndex \in {IndexOf(beforeHash, <<CH_QM>>)} |->
  Let([beforeQuery \in {IF qIndex >= 0 THEN Slice(beforeHash, 0, qIndex) ELSE beforeHash},
        query \in {IF qIndex >= 0 THEN Str(SliceFrom(beforeHash, qIndex + 1)) ELSE Null} |->
  Let([m \in {SchemeLen(beforeQuery)} |->
  Let([rest \in {SliceFrom(beforeQuery, m + 1)} |->
  LET rest2 == SliceFrom(rest, 2)
  IN  Let([slashIndex \in {IndexOf(rest2, <<CH_SLASH>>)} |->
    IF m > 0
    THEN IF StartsWith(rest, <<CH_SLASH, CH_SLASH>>)
         THEN IF slashIndex >= 0
              THEN [scheme |-> Str(Slice(beforeQuery, 0, m)),
                    authority |-> Str(Slice(rest2, 0, slashIndex)),
                    path |-> Str(SliceFrom(rest2, slashIndex)),
                    query |-> query, fragment |-> fragment]
              ELSE [scheme |-> Str(Slice(beforeQuery, 0, m)),
                    authority |-> Str(rest2), path |-> Str(<<>>),
                    query |-> query, fragment |-> fragment]
         ELSE [scheme |-> Str(Slice(beforeQuery, 0, m)),
               authority |-> Null, path |-> Str(rest),
               query |-> query, fragment |-> fragment]
    ELSE [scheme |-> Null, authority |-> Null, path |-> Str(beforeQuery),
          query |-> query, fragment |-> fragment]])])])])])])])])

splitUrlLoosely(url) ==
  LET input == IF IsNullish(url) THEN <<>> ELSE ToStr(url)
  IN  Let([s \in {Trim(input)} |->
  Let([hashIndex \in {IndexOf(s, <<CH_HASH>>)} |->
  Let([beforeHash \in {IF hashIndex >= 0 THEN Slice(s, 0, hashIndex) ELSE s},
        fragment \in {IF hashIndex >= 0 THEN Str(SliceFrom(s, hashIndex + 1)) ELSE Null} |->
  Let([qIndex \in {IndexOf(beforeHash, <<CH_QM>>)} |->
  Let([beforeQuery \in {IF qIndex >= 0 THEN Slice(beforeHash, 0, qIndex) ELSE beforeHash},
        query \in {IF qIndex >= 0 THEN Str(SliceFrom(beforeHash, qIndex + 1)) ELSE Null} |->
  Let([m \in {SchemeLen(beforeQuery)} |->
  Let([rest \in {SliceFrom(beforeQuery, m + 1)} |->
  LET rest2 == SliceFrom(rest, 2)
  IN  Let([slashIndex \in {IndexOf(rest2, <<CH_SLASH>>)} |->
    IF m > 0
    THEN IF StartsWith(rest, <<CH_SLASH, CH_SLASH>>)
         THEN IF slashIndex >= 0
              THEN [scheme |-> Str(Slice(beforeQuery, 0, m)),
                    authority |-> Str(Slice(rest2, 0, slashIndex)),
                    path |-> Str(SliceFrom(rest2, slashIndex)),
                    query |-> query, fragment |-> fragment]
              ELSE [scheme |-> Str(Slice(beforeQuery, 0, m)),
                    authority |-> Str(rest2), path |-> Str(<<>>),
                    query |-> query, fragment |-> fragment]
         ELSE [scheme |-> Str(Slice(beforeQuery, 0, m)),
               authority |-> Null, path |-> Str(rest),
               query |-> query, fragment |-> fragment]
    ELSE [scheme |-> Null, authority |-> Null, path |-> Str(beforeQuery),
          query |-> query, fragment |-> fragment]])])])])])])])])

\* isPort without the upper limit of the range (a variant no parser uses:
\* PortInRange fails under it)
isPortUnbounded(n) ==
  IF n.t = "string"
  THEN Let([trimmed \in {Trim(n.v)} |-> AllDigits(trimmed) /\ DigitsValue(trimmed) >= 1])
  ELSE IF n.t = "number" THEN n.k = "int" /\ n.v >= 1
  ELSE FALSE

isPort(n) ==
  IF n.t = "string"
  THEN Let([trimmed \in {Trim(n.v)} |->
         AllDigits(trimmed) /\ DigitsValue(trimmed) >= 1 /\ DigitsValue(trimmed) <= 65535])
  ELSE IF n.t = "number" THEN n.k = "int" /\ n.v >= 1 /\ n.v <= 65535
  ELSE FALSE

parseAuthority(authority) ==
  Let([raw \in {IF IsNullish(authority) THEN <<>> ELSE Trim(ToStr(authority))} |->
  Let([input \in {IF StartsWith(raw, <<CH_SLASH, CH_SLASH>>) THEN SliceFrom(raw, 2) ELSE raw} |->
  Let([at \in {LastIndexOf(input, <<CH_AT>>)} |->
  LET hostport == IF at >= 0 THEN SliceFrom(input, at + 1) ELSE input
  IN  Let([userinfo \in {IF at >= 0 THEN Str(Slice(input, 0, at)) ELSE Null},
            hp \in {Trim(hostport)} |->
  Let([close \in {IndexOf(hp, <<CH_RBRACKET>>)},
        colonCount \in {CountChar(hp, CH_COLON)},
        lastColon \in {LastIndexOf(hp, <<CH_COLON>>)} |->
  LET left == Slice(hp, 0, lastColon)
  IN  Let([rest \in {SliceFrom(hp, close + 1)},
            right \in {SliceFrom(hp, lastColon + 1)} |->
  Let([pn \in {ParseInt(SliceFrom(rest, 1))},
        rn \in {ParseInt(right)} |->
    IF hp = <<>> THEN [userinfo |-> userinfo, host |-> Null, port |-> Null]
    ELSE IF StartsWith(hp, <<CH_LBRACKET>>)
    THEN IF close > 0
         THEN [userinfo |-> userinfo, host |-> Str(Slice(hp, 1, close)),
               port |-> IF StartsWith(rest, <<CH_COLON>>) /\ isPort(pn) THEN pn ELSE Null]
         ELSE [userinfo |-> userinfo, host |-> Str(hp), port |-> Null]
    ELSE IF colonCount > 1 THEN [userinfo |-> userinfo, host |-> Str(hp), port |-> Null]
    ELSE IF colonCount = 1 /\ AllDigits(right) /\ Len(right) <= 5 /\ isPort(rn)
    THEN [userinfo |-> userinfo, host |-> IF left = <<>> THEN Null ELSE Str(left), port |-> rn]
    ELSE [userinfo |-> userinfo, host |-> Str(hp), port |-> Null]])])])])])])])

\* one "k=v" part: <<kRaw, vRaw>>
SplitPair(part) ==
  Let([eq \in {IndexOf(part, <<CH_EQ>>)} |->
    IF eq >= 0 THEN <<Slice(part, 0, eq), SliceFrom(part, eq + 1)>> ELSE <<part, <<>> >>])

\* the accumulation step without the arrays: the last value of a key replaces
\* the one before (a variant parseQuery does not use: QueryValuesInOrder
\* fails under it)
AddParamLast(out, k, v) == Put(out, k, Str(v))

\* the accumulation step of parseQuery: scalar, then array of two, then push
AddParam(out, k, v) ==
  Let([prev \in {Get(out, k)} |->
    IF IsNullish(prev) THEN Put(out, k, Str(v))
    ELSE IF prev.t = "array" THEN Put(out, k, Arr(Append(prev.v, Str(v))))
    ELSE Put(out, k, Arr(<<prev, Str(v)>>))])

\* one iteration of the loop of parseQuery over the parts
QueryPart(out, part, plus) ==
  IF part = <<>> THEN out
  ELSE Let([kv \in {SplitPair(part)} |->
       Let([k \in {safeDecodeURIComponent(Str(IF plus THEN ReplaceChar(kv[1], CH_PLUS, CH_SP) ELSE kv[1]))} |->
         IF k = <<>> THEN out
         ELSE AddParam(out, k,
                safeDecodeURIComponent(Str(IF plus THEN ReplaceChar(kv[2], CH_PLUS, CH_SP) ELSE kv[2])))])])

\* out after the first n parts
RECURSIVE ParseQueryParts(_, _, _)
ParseQueryParts(parts, n, plus) ==
  IF n = 0 THEN Obj(<<>>) ELSE QueryPart(ParseQueryParts(parts, n - 1, plus), parts[n], plus)

QueryText(query) ==
  Let([raw \in {IF IsNullish(query) THEN <<>> ELSE ToStr(query)} |->
    IF StartsWith(raw, <<CH_QM>>) THEN SliceFrom(raw, 1) ELSE raw])

parseQuery(query) ==
  Let([s \in {QueryText(query)} |->
    IF s = <<>> THEN Obj(<<>>)
    ELSE Let([parts \in {SplitOn(s, {CH_AMP, CH_SEMI})} |-> ParseQueryParts(parts, Len(parts), TRUE)])])

\* /^[0-9a-f]{8}-[0-9a-f]{4}-[1-5][0-9a-f]{3}-[89ab][0-9a-f]{3}-[0-9a-f]{12}$/i
isUuid(x) ==
  IF IsNullish(x) THEN FALSE
  ELSE Let([v \in {Trim(ToStr(x))} |->
         /\ Len(v) = 36
         /\ \A i \in 1..36 :
              IF i \in {9, 14, 19, 24} THEN v[i] = CH_MINUS
              ELSE IF i = 15 THEN v[i] >= 49 /\ v[i] <= 53
              ELSE IF i = 20 THEN LowerChar(v[i]) \in {56, 57, 97, 98}
              ELSE IsHex(v[i])])

(***************************************************************************)
(* JavaScript coercions and the helpers every parser file repeats          *)
(***************************************************************************)
\* ToBoolean(x)
Truthy(x) ==
  CASE x.t \in {"undefined", "null"} -> FALSE
    [] x.t = "string" -> x.v # <<>>
    [] x.t = "number" -> ~(x.k = "nan" \/ (x.k = "int" /\ x.v = 0))
    [] x.t = "boolean" -> x.v
    [] OTHER -> TRUE

\* a || b
Or(a, b) == IF Truthy(a) THEN a ELSE b

\* a warning message, identified by its template
Warn(id) == [t |-> "string", w |-> id]

\* String(x) throws a TypeError: an object whose own toString is not callable
\* (every value read from JSON), or an array holding one
RECURSIVE StringThrows(_)
StringThrows(x) ==
  CASE x.t = "object" -> HasKey(x, S(<<"t", "o", "S", "t", "r", "i", "n", "g">>))
    [] x.t = "array" -> \E i \in 1..Len(x.v) : StringThrows(x.v[i])
    [] OTHER -> FALSE

asString(x) == IF IsNullish(x) \/ StringThrows(x) THEN <<>> ELSE ToStr(x)

lower(x) == ToLowerCase(Trim(asString(x)))

getFirstParam(queryObj, key) ==
  Let([v \in {Get(queryObj, key)} |->
    IF IsNullish(v) THEN Null
    ELSE IF v.t = "array" THEN (IF v.v # <<>> THEN Str(asString(v.v[1])) ELSE Null)
    ELSE Str(asString(v))])

\* the first part of a raw query whose decoded key is key (no "+" to space)
RawFirstParam(parts, key) ==
  Let([i \in {FirstAt(parts, 1, LAMBDA i : parts[i] # <<>> /\ safeDecodeURIComponent(Str(SplitPair(parts[i])[1])) = key)} |->
    IF i > Len(parts) THEN Null ELSE Str(safeDecodeURIComponent(Str(SplitPair(parts[i])[2])))])

getRawQueryFirstParam(query, key) ==
  Let([s \in {QueryText(query)} |->
    IF s = <<>> THEN Null
    ELSE RawFirstParam(SplitOn(s, {CH_AMP, CH_SEMI}), key)])

parseBooleanish(x) ==
  lower(x) \in {S(<<"1">>), S(<<"t", "r", "u", "e">>), S(<<"y", "e", "s">>), S(<<"y">>),
                S(<<"o", "n">>)}

\* parts.map((x) => x.trim()).filter(Boolean), as an array of strings
TrimmedNonEmpty(parts) ==
  Arr(SelectSeq([i \in 1..Len(parts) |-> Str(Trim(parts[i]))], LAMBDA e : e.v # <<>>))

parseAlpn(x) ==
  IF IsNullish(x) THEN Arr(<<>>)
  ELSE TrimmedNonEmpty(SplitOn(asString(x), {CH_COMMA}))

\* typeof x
TypeOf(x) == IF x.t \in {"null", "array"} THEN "object" ELSE x.t

(***************************************************************************)
(* parsers/vless-parser.js                                                 *)
(***************************************************************************)
\* /^uuid:/i
HasUuidPrefix(raw) ==
  /\ Len(raw) >= 5
  /\ [i \in 1..4 |-> IF IsUpper(raw[i]) THEN raw[i] + 32 ELSE raw[i]] = S(<<"u", "u", "i", "d">>)
  /\ raw[5] = CH_COLON

\* returns the uuid and the warnings list after the pushes
normalizeUuid(env, uuidRaw, warnings) ==
  Let([raw \in {Trim(asString(uuidRaw))} |->
  Let([tail \in {Trim(SliceFrom(raw, IndexOf(raw, <<CH_COLON>>) + 1))},
        decodedTrim \in {Trim(asString(base64DecodeUtf8(env, Str(raw))))} |->
  Let([decodedTailTrim \in {Trim(asString(base64DecodeUtf8(env, Str(tail))))} |->
    IF raw = <<>>
    THEN [uuid |-> <<>>, warnings |-> Append(warnings, Warn("vless: missing uuid"))]
    ELSE IF HasUuidPrefix(raw) /\ isUuid(Str(tail))
    THEN [uuid |-> tail, warnings |-> Append(warnings, Warn("vless: uuid:xxx userinfo"))]
    ELSE IF HasUuidPrefix(raw) /\ decodedTailTrim # <<>> /\ isUuid(Str(decodedTailTrim))
    THEN [uuid |-> decodedTailTrim,
          warnings |-> Append(warnings, Warn("vless: uuid:Base64 userinfo"))]
    ELSE IF isUuid(Str(raw)) THEN [uuid |-> raw, warnings |-> warnings]
    ELSE IF decodedTrim # <<>> /\ isUuid(Str(decodedTrim))
    THEN [uuid |-> decodedTrim, warnings |-> Append(warnings, Warn("vless: Base64 uuid"))]
    ELSE [uuid |-> raw, warnings |-> Append(warnings, Warn("vless: illegal uuid"))]])])])

\* v.trim() || null for a value read with getFirstParam
TrimOrNull(x) == Let([v \in {Trim(asString(x))} |->
                   IF v = <<>> THEN Null ELSE Str(v)])
\* x || undefined
OrUndefined(x) == IF Truthy(x) THEN x ELSE Undefined

\* /^[0-9a-fA-F]+$/
IsHexString(s) == s # <<>> /\ \A i \in 1..Len(s) : IsHex(s[i])

\* the ws / http branch of the transport record
PathHost(queryObj) ==
  LET hostHeader == TrimOrNull(getFirstParam(queryObj, S(<<"h", "o", "s", "t">>)))
  IN  Let([path \in {Trim(asString(getFirstParam(queryObj, S(<<"p", "a", "t", "h">>))))} |->
    Obj(<< <<S(<<"p", "a", "t", "h">>), Str(IF path = <<>> THEN <<CH_SLASH>> ELSE path)>>,
           <<S(<<"h", "o", "s", "t">>), OrUndefined(hostHeader)>> >>)])

GrpcOpts(queryObj) ==
  LET serviceName == TrimOrNull(getFirstParam(queryObj,
                        S(<<"s", "e", "r", "v", "i", "c", "e", "N", "a", "m", "e">>)))
      mode == TrimOrNull(getFirstParam(queryObj, S(<<"m", "o", "d", "e">>)))
  IN  Obj(<< <<S(<<"s", "e", "r", "v", "i", "c", "e", "N", "a", "m", "e">>), OrUndefined(serviceName)>>,
             <<S(<<"m", "o", "d", "e">>), OrUndefined(mode)>> >>)

\* property names of the records the parsers and converters build
K_source == S(<<"s", "o", "u", "r", "c", "e">>)
K_type == S(<<"t", "y", "p", "e">>)
K_name == S(<<"n", "a", "m", "e">>)
K_server == S(<<"s", "e", "r", "v", "e", "r">>)
K_port == S(<<"p", "o", "r", "t">>)
K_extras == S(<<"e", "x", "t", "r", "a", "s">>)
K_warnings == S(<<"w", "a", "r", "n", "i", "n", "g", "s">>)
K_rawUrl == S(<<"r", "a", "w", "U", "r", "l">>)
K_uuid == S(<<"u", "u", "i", "d">>)
K_password == S(<<"p", "a", "s", "s", "w", "o", "r", "d">>)
K_tls == S(<<"t", "l", "s">>)
K_transport == S(<<"t", "r", "a", "n", "s", "p", "o", "r", "t">>)
K_enabled == S(<<"e", "n", "a", "b", "l", "e", "d">>)
K_security == S(<<"s", "e", "c", "u", "r", "i", "t", "y">>)
K_sni == S(<<"s", "n", "i">>)
K_alpn == S(<<"a", "l", "p", "n">>)
K_insecure == S(<<"i", "n", "s", "e", "c", "u", "r", "e">>)
K_fingerprint == S(<<"f", "i", "n", "g", "e", "r", "p", "r", "i", "n", "t">>)
K_reality == S(<<"r", "e", "a", "l", "i", "t", "y">>)
K_pbk == S(<<"p", "b", "k">>)
K_sid == S(<<"s", "i", "d">>)
K_network == S(<<"n", "e", "t", "w", "o", "r", "k">>)
K_ws == S(<<"w", "s">>)
K_grpc == S(<<"g", "r", "p", "c">>)
K_http == S(<<"h", "t", "t", "p">>)
K_uuidRaw == S(<<"u", "u", "i", "d", "R", "a", "w">>)
K_flow == S(<<"f", "l", "o", "w">>)
K_query == S(<<"q", "u", "e", "r", "y">>)

\* if (cond) warnings.push(id)
PushIf(warnings, cond, id) == IF cond THEN Append(warnings, Warn(id)) ELSE warnings

\* cond ? <<key, val>> : nothing, for objects whose properties are set conditionally
EntryIf(cond, key, val) == IF cond THEN << <<key, val>> >> ELSE <<>>

VLESSParser_parse(env, url) ==
  Let([rawUrl \in {Trim(asString(url))},
        supported \in {{S(<<"t", "c", "p">>), S(<<"w", "s">>), S(<<"g", "r", "p", "c">>),
                        S(<<"h", "t", "t", "p">>)}} |->
  Let([u \in {splitUrlLoosely(Str(rawUrl))} |->
  LET w1 == PushIf(<<>>, lower(u.scheme) # <<>> /\ lower(u.scheme) # S(<<"v", "l", "e", "s", "s">>),
                   "vless: scheme is not vless")
  IN  Let([a \in {parseAuthority(Or(u.authority, Str(<<>>)))},
            queryObj \in {parseQuery(Or(u.query, Str(<<>>)))},
            decodedName \in {safeDecodeURIComponent(IF IsNullish(u.fragment) THEN Str(<<>>) ELSE u.fragment)},
            pbkFromRaw \in {getRawQueryFirstParam(u.query, K_pbk)} |->
  LET securityRaw == getFirstParam(queryObj, K_security)
      flow == TrimOrNull(getFirstParam(queryObj, K_flow))
  IN  Let([uuidDecoded \in {safeDecodeURIComponent(Or(a.userinfo, Str(<<>>)))},
            server \in {Trim(asString(a.host))},
            portNum \in {IF TypeOf(a.port) = "number" THEN a.port ELSE Null},
            security \in {lower(securityRaw)},
            sni \in {TrimOrNull(getFirstParam(queryObj, K_sni))},
            fp \in {TrimOrNull(getFirstParam(queryObj, S(<<"f", "p">>)))} |->
  Let([allowInsecure \in {parseBooleanish(getFirstParam(queryObj,
                             S(<<"a", "l", "l", "o", "w", "I", "n", "s", "e", "c", "u", "r", "e">>)))},
        alpn \in {parseAlpn(Get(queryObj, K_alpn))},
        pbk \in {TrimOrNull(IF ~IsNullish(pbkFromRaw) THEN pbkFromRaw ELSE getFirstParam(queryObj, K_pbk))},
        sid \in {TrimOrNull(getFirstParam(queryObj, K_sid))},
        typeRaw \in {getFirstParam(queryObj, K_type)} |->
  LET name == IF Trim(decodedName) # <<>> THEN Trim(decodedName)
              ELSE IF server # <<>> THEN server
              ELSE S(<<"v", "l", "e", "s", "s">>)
      reality == Obj(EntryIf(Truthy(pbk), K_pbk, pbk) \o EntryIf(Truthy(sid), K_sid, sid))
      extras == Obj(<< <<K_uuidRaw, OrUndefined(Str(uuidDecoded))>>,
                       <<K_flow, OrUndefined(flow)>>,
                       <<K_query, queryObj>>,
                       <<K_rawUrl, OrUndefined(Str(rawUrl))>> >>)
  IN  Let([nu \in {normalizeUuid(env, Str(uuidDecoded), w1)},
            hasTlsHints \in {\/ Truthy(sni) \/ Truthy(fp) \/ allowInsecure
                             \/ alpn.v # <<>> \/ Truthy(pbk) \/ Truthy(sid)},
            known \in {security \in {S(<<"t", "l", "s">>), S(<<"r", "e", "a", "l", "i", "t", "y">>)}},
            network \in {IF lower(typeRaw) # <<>> THEN lower(typeRaw) ELSE S(<<"t", "c", "p">>)} |->
  LET inferred == ~known /\ hasTlsHints
      tlsEnabled == known \/ hasTlsHints
  IN  Let([w2 \in {PushIf(nu.warnings, server = <<>>, "vless: missing host")},
            tlsSecurity \in {IF known THEN Str(security)
                             ELSE IF inferred
                             THEN (IF Truthy(pbk) \/ Truthy(sid)
                                   THEN Str(S(<<"r", "e", "a", "l", "i", "t", "y">>))
                                   ELSE Str(S(<<"t", "l", "s">>)))
                             ELSE Null},
            finalNetwork \in {IF network \in supported THEN network ELSE S(<<"t", "c", "p">>)} |->
  LET w3 == IF IsNullish(portNum)
            THEN Append(PushIf(w2, /\ server # <<>>
                                   /\ Includes(server, <<CH_COLON>>)
                                   /\ ~Includes(ToStr(Or(u.authority, Str(<<>>))), <<CH_RBRACKET>>),
                               "vless: IPv6 without brackets"),
                        Warn("vless: missing port"))
            ELSE PushIf(w2, ~isPort(portNum), "vless: illegal port")
      w4 == PushIf(w3, decodedName = <<>> \/ Trim(decodedName) = <<>>, "vless: missing name")
      w5 == PushIf(w4, ~known /\ security # <<>>, "vless: unknown security")
      w6 == PushIf(w5, inferred, "vless: security inferred")
      transport == Obj(<< <<K_network, Str(finalNetwork)>>,
                          <<K_ws, IF finalNetwork = K_ws THEN PathHost(queryObj) ELSE Undefined>>,
                          <<K_grpc, IF finalNetwork = K_grpc THEN GrpcOpts(queryObj) ELSE Undefined>>,
                          <<K_http, IF finalNetwork = K_http THEN PathHost(queryObj) ELSE Undefined>> >>)
  IN  Let([isReality \in {tlsEnabled /\ tlsSecurity = Str(S(<<"r", "e", "a", "l", "i", "t", "y">>))} |->
  LET w7 == PushIf(w6, isReality /\ ~Truthy(pbk), "vless: reality without pbk")
      w8 == PushIf(w7, isReality /\ Truthy(sid) /\ ~IsHexString(asString(sid)), "vless: sid is not hex")
      tls == Obj(<< <<K_enabled, Bool(tlsEnabled)>>,
                    <<K_security, tlsSecurity>>,
                    <<K_sni, Or(sni, Null)>>,
                    <<K_alpn, IF alpn.v # <<>> THEN alpn ELSE Undefined>>,
                    <<K_insecure, IF allowInsecure THEN Bool(TRUE) ELSE Undefined>>,
                    <<K_fingerprint, OrUndefined(fp)>>,
                    <<K_reality, IF isReality THEN reality ELSE Undefined>> >>)
      w9 == PushIf(w8, network \notin supported /\ network # <<>>, "vless: unknown transport type")
  IN  Obj(<< <<K_source, Str(S(<<"v", "l", "e", "s", "s">>))>>,
             <<K_type, Str(S(<<"v", "l", "e", "s", "s">>))>>,
             <<K_name, Str(name)>>,
             <<K_server, Str(server)>>,
             <<K_port, IF TypeOf(portNum) = "number" THEN portNum ELSE Num(0)>>,
             <<K_uuid, Str(nu.uuid)>>,
             <<K_tls, tls>>,
             <<K_transport, transport>>,
             <<K_extras, extras>>,
             <<K_warnings, Arr(w9)>> >>)])])])])])])])])

(***************************************************************************)
(* parsers/trojan-parser.js                                                *)
(***************************************************************************)
Trojan_parseAlpn(x) ==
  IF IsNullish(x) THEN Arr(<<>>)
  ELSE IF x.t = "array" THEN TrimmedNonEmpty([i \in 1..Len(x.v) |-> asString(x.v[i])])
  ELSE IF Trim(asString(x)) = <<>> THEN Arr(<<>>)
  ELSE TrimmedNonEmpty(SplitOn(Trim(asString(x)), {CH_COMMA}))

\* a zeroed record without extras and warnings (a variant no parser uses:
\* ParsersTotal fails under it)
ZeroedNodeBare(proto, creds, rawUrl, warnings) ==
  Obj(<< <<K_source, Str(proto)>>, <<K_type, Str(proto)>>, <<K_name, Str(proto)>>,
         <<K_server, Str(<<>>)>>, <<K_port, Num(0)>> >>)

\* a zeroed record with an empty name (a variant no parser uses:
\* NameNonEmpty fails under it)
ZeroedNodeUnnamed(proto, creds, rawUrl, warnings) ==
  Obj(<< <<K_source, Str(proto)>>, <<K_type, Str(proto)>>, <<K_name, Str(<<>>)>>,
         <<K_server, Str(<<>>)>>, <<K_port, Num(0)>>,
         <<K_extras, Obj(<< <<K_rawUrl, Str(rawUrl)>> >>)>>,
         <<K_warnings, Arr(warnings)>> >>)

\* the record returned for empty input and from the catch block
ZeroedNode(proto, creds, rawUrl, warnings) ==
  Obj(<< <<K_source, Str(proto)>>,
         <<K_type, Str(proto)>>,
         <<K_name, Str(proto)>>,
         <<K_server, Str(<<>>)>>,
         <<K_port, Num(0)>> >>
      \o [i \in 1..Len(creds) |-> <<creds[i], Str(<<>>)>>]
      \o << <<K_extras, Obj(<< <<K_rawUrl, Str(rawUrl)>> >>)>>,
            <<K_warnings, Arr(warnings)>> >>)

TrojanParser_parse(url) ==
  Let([rawUrl \in {Trim(asString(url))},
        supported \in {{S(<<"t", "c", "p">>), S(<<"w", "s">>), S(<<"g", "r", "p", "c">>)}} |->
  Let([u \in {splitUrlLoosely(Str(rawUrl))} |->
  LET w1 == PushIf(<<>>, lower(u.scheme) # <<>> /\ lower(u.scheme) # S(<<"t", "r", "o", "j", "a", "n">>),
                   "trojan: scheme is not trojan")
  IN  Let([nameFromFrag \in {IF ~IsNullish(u.fragment) THEN Trim(safeDecodeURIComponent(u.fragment)) ELSE <<>>},
            queryObj \in {parseQuery(u.query)},
            a \in {parseAuthority(u.authority)} |->
  LET security == lower(getFirstParam(queryObj, K_security))
      sni == TrimOrNull(Coalesce(getFirstParam(queryObj, K_sni),
                                 getFirstParam(queryObj, S(<<"p", "e", "e", "r">>))))
      allowInsecure == parseBooleanish(Coalesce(
                         getFirstParam(queryObj, S(<<"a", "l", "l", "o", "w", "I", "n", "s", "e", "c", "u", "r", "e">>)),
                         getFirstParam(queryObj, K_insecure)))
      extras == Obj(<< <<K_query, queryObj>>, <<K_rawUrl, Str(rawUrl)>> >>)
  IN  Let([password \in {Trim(safeDecodeURIComponent(Str(asString(a.userinfo))))},
            server \in {Trim(safeDecodeURIComponent(Str(asString(a.host))))},
            portNum \in {IF isPort(a.port) THEN a.port ELSE Num(0)},
            alpn \in {Trojan_parseAlpn(Get(queryObj, K_alpn))},
            tlsEnabled \in {security \notin {S(<<"n", "o", "n", "e">>), S(<<"f", "a", "l", "s", "e">>),
                                             S(<<"0">>), S(<<"o", "f", "f">>)}},
            typeRaw \in {getFirstParam(queryObj, K_type)} |->
  LET w2 == PushIf(w1, password = <<>>, "trojan: missing password")
      w3 == PushIf(w2, server = <<>>, "trojan: missing server")
      w4 == PushIf(w3, ~Truthy(portNum), "trojan: illegal port")
      name == IF nameFromFrag # <<>> THEN nameFromFrag
              ELSE IF server # <<>> THEN server
              ELSE S(<<"t", "r", "o", "j", "a", "n">>)
      w5 == PushIf(w4, ~tlsEnabled, "trojan: tls disabled by security")
      tls == Obj(<< <<K_enabled, Bool(tlsEnabled)>>,
                    <<K_security, IF tlsEnabled THEN Str(S(<<"t", "l", "s">>)) ELSE Null>>,
                    <<K_sni, Or(sni, Null)>>,
                    <<K_alpn, IF alpn.v # <<>> THEN alpn ELSE Undefined>>,
                    <<K_insecure, IF allowInsecure THEN Bool(TRUE) ELSE Undefined>> >>)
  IN  Let([network0 \in {IF lower(typeRaw) # <<>> THEN lower(typeRaw) ELSE S(<<"t", "c", "p">>)} |->
  LET w6 == PushIf(w5, network0 \notin supported /\ network0 # <<>>, "trojan: unsupported transport type")
  IN  Let([network \in {IF network0 \in supported THEN network0 ELSE S(<<"t", "c", "p">>)} |->
  LET transport == Obj(<< <<K_network, Str(network)>>,
                          <<K_ws, IF network = K_ws THEN PathHost(queryObj) ELSE Undefined>>,
                          <<K_grpc, IF network = K_grpc THEN GrpcOpts(queryObj) ELSE Undefined>> >>)
  IN  IF rawUrl = <<>>
      THEN ZeroedNode(S(<<"t", "r", "o", "j", "a", "n">>), <<K_password>>, <<>>,
                      <<Warn("trojan: empty input")>>)
      ELSE Obj(<< <<K_source, Str(S(<<"t", "r", "o", "j", "a", "n">>))>>,
                  <<K_type, Str(S(<<"t", "r", "o", "j", "a", "n">>))>>,
                  <<K_name, Str(name)>>,
                  <<K_server, Str(server)>>,
                  <<K_port, portNum>>,
                  <<K_password, Str(password)>>,
                  <<K_tls, tls>>,
                  <<K_transport, transport>>,
                  <<K_extras, extras>>,
                  <<K_warnings, Arr(w6)>> >>)])])])])])])

(***************************************************************************)
(* parsers/hysteria2-parser.js                                             *)
(***************************************************************************)
K_obfs == S(<<"o", "b", "f", "s">>)
K_obfsPassword == S(<<"o", "b", "f", "s", "P", "a", "s", "s", "w", "o", "r", "d">>)
K_fastOpen == S(<<"f", "a", "s", "t", "O", "p", "e", "n">>)
K_recvWindowConn == S(<<"r", "e", "c", "v", "W", "i", "n", "d", "o", "w", "C", "o", "n", "n">>)
K_recvWindow == S(<<"r", "e", "c", "v", "W", "i", "n", "d", "o", "w">>)
K_maxConn == S(<<"m", "a", "x", "C", "o", "n", "n">>)
K_smux == S(<<"s", "m", "u", "x">>)

Hysteria2_parseAlpn(x) ==
  IF IsNullish(x) THEN Arr(<<>>)
  ELSE IF x.t = "array" THEN TrimmedNonEmpty([i \in 1..Len(x.v) |-> asString(x.v[i])])
  ELSE IF Trim(asString(x)) = <<>> THEN Arr(<<>>)
  ELSE TrimmedNonEmpty(SplitOn(Trim(asString(x)), {CH_COMMA, CH_PIPE}))

\* /^[+]?\d+$/
IsPlusDigits(s) == AllDigits(IF s # <<>> /\ Head(s) = CH_PLUS THEN Tail(s) ELSE s)

parsePositiveInt(x) ==
  Let([s \in {Trim(asString(x))} |->
  Let([n \in {ParseInt(s)} |->
    IF x.t = "number" /\ x.k = "int" /\ x.v > 0 THEN x
    ELSE IF s = <<>> THEN NaN
    ELSE IF ~IsPlusDigits(s) THEN NaN
    ELSE IF n.k = "int" /\ n.v > 0 THEN n ELSE NaN])])

\* Number.isFinite(x) ? x : undefined
FiniteOrUndefined(x) == IF x.t = "number" /\ x.k \in {"int", "frac"} THEN x ELSE Undefined

\* a ?? b ?? c over the values of three query keys
FirstOf3(queryObj, k1, k2, k3) ==
  Coalesce(Coalesce(getFirstParam(queryObj, k1), getFirstParam(queryObj, k2)),
           getFirstParam(queryObj, k3))

Hysteria2Parser_parse(url) ==
  Let([rawUrl \in {Trim(asString(url))} |->
  Let([u \in {splitUrlLoosely(Str(rawUrl))} |->
  LET authorityText == IF ~IsNullish(u.authority) THEN asString(u.authority) ELSE asString(u.path)
  IN  Let([sc \in {lower(u.scheme)},
            nameFromFrag \in {IF ~IsNullish(u.fragment) THEN Trim(safeDecodeURIComponent(u.fragment)) ELSE <<>>},
            queryObj \in {parseQuery(u.query)},
            a \in {parseAuthority(Str(authorityText))} |->
  LET w1 == PushIf(<<>>, sc # <<>> /\ sc # S(<<"h", "y", "s", "t", "e", "r", "i", "a", "2">>) /\ sc # S(<<"h", "y", "2">>),
                   "hysteria2: scheme is not hysteria2/hy2")
      passwordFromQuery == Trim(asString(FirstOf3(queryObj, K_password, S(<<"a", "u", "t", "h">>), S(<<"p", "a", "s", "s", "w", "d">>))))
      sni == TrimOrNull(FirstOf3(queryObj, K_sni, S(<<"p", "e", "e", "r">>), S(<<"s", "e", "r", "v", "e", "r", "n", "a", "m", "e">>)))
      allowInsecure == parseBooleanish(FirstOf3(queryObj, S(<<"a", "l", "l", "o", "w", "I", "n", "s", "e", "c", "u", "r", "e">>), K_insecure,
                                                S(<<"s", "k", "i", "p", "-", "c", "e", "r", "t", "-", "v", "e", "r", "i", "f", "y">>)))
      obfs == Trim(asString(getFirstParam(queryObj, K_obfs)))
      obfsPassword == Trim(asString(FirstOf3(queryObj, S(<<"o", "b", "f", "s", "-", "p", "a", "s", "s", "w", "o", "r", "d">>), K_obfsPassword,
                                             S(<<"o", "b", "f", "s", "_", "p", "a", "s", "s", "w", "d">>))))
      fastOpen == parseBooleanish(FirstOf3(queryObj, S(<<"f", "a", "s", "t", "-", "o", "p", "e", "n">>), K_fastOpen, S(<<"f", "a", "s", "t", "o", "p", "e", "n">>)))
      recvWindowConn0 == parsePositiveInt(FirstOf3(queryObj, S(<<"r", "e", "c", "v", "-", "w", "i", "n", "d", "o", "w", "-", "c", "o", "n", "n">>), K_recvWindowConn,
                                                   S(<<"r", "e", "c", "v", "_", "w", "i", "n", "d", "o", "w", "_", "c", "o", "n", "n">>)))
      recvWindow0 == parsePositiveInt(FirstOf3(queryObj, S(<<"r", "e", "c", "v", "-", "w", "i", "n", "d", "o", "w">>), K_recvWindow,
                                               S(<<"r", "e", "c", "v", "_", "w", "i", "n", "d", "o", "w">>)))
      maxConn0 == parsePositiveInt(FirstOf3(queryObj, S(<<"m", "a", "x", "-", "c", "o", "n", "n">>), K_maxConn, S(<<"m", "a", "x", "_", "c", "o", "n", "n">>)))
      smuxEnabled == parseBooleanish(getFirstParam(queryObj, K_smux))
      extras == Obj(<< <<K_query, queryObj>>, <<K_rawUrl, Str(rawUrl)>> >>)
  IN  Let([server \in {Trim(safeDecodeURIComponent(Str(asString(a.host))))},
            portNum \in {IF isPort(a.port) THEN a.port ELSE Num(0)},
            passwordFromUserinfo \in {Trim(safeDecodeURIComponent(Str(asString(a.userinfo))))},
            alpn \in {Hysteria2_parseAlpn(getFirstParam(queryObj, K_alpn))} |->
  LET w2 == PushIf(w1, server = <<>>, "hysteria2: missing server")
      w3 == PushIf(w2, ~Truthy(portNum), "hysteria2: illegal port")
      name == IF nameFromFrag # <<>> THEN nameFromFrag
              ELSE IF server # <<>> THEN server
              ELSE S(<<"h", "y", "s", "t", "e", "r", "i", "a", "2">>)
      tls == Obj(<< <<K_enabled, Bool(TRUE)>>,
                    <<K_security, Str(S(<<"t", "l", "s">>))>>,
                    <<K_sni, Or(sni, Null)>>,
                    <<K_alpn, IF alpn.v # <<>> THEN alpn ELSE Undefined>>,
                    <<K_insecure, IF allowInsecure THEN Bool(TRUE) ELSE Undefined>> >>)
  IN  Let([password \in {Trim(IF passwordFromUserinfo # <<>> THEN passwordFromUserinfo ELSE passwordFromQuery)} |->
  LET w4 == PushIf(w3, password = <<>>, "hysteria2: missing password")
  IN  IF rawUrl = <<>>
      THEN ZeroedNode(S(<<"h", "y", "s", "t", "e", "r", "i", "a", "2">>), <<K_password>>, <<>>, <<Warn("hysteria2: empty input")>>)
      ELSE Obj(<< <<K_source, Str(S(<<"h", "y", "s", "t", "e", "r", "i", "a", "2">>))>>,
                  <<K_type, Str(S(<<"h", "y", "s", "t", "e", "r", "i", "a", "2">>))>>,
                  <<K_name, Str(name)>>,
                  <<K_server, Str(server)>>,
                  <<K_port, portNum>>,
                  <<K_password, Str(password)>>,
                  <<K_tls, tls>>,
                  <<K_obfs, OrUndefined(Str(obfs))>>,
                  <<K_obfsPassword, OrUndefined(Str(obfsPassword))>>,
                  <<K_fastOpen, IF fastOpen THEN Bool(TRUE) ELSE Undefined>>,
                  <<K_recvWindowConn, FiniteOrUndefined(recvWindowConn0)>>,
                  <<K_recvWindow, FiniteOrUndefined(recvWindow0)>>,
                  <<K_maxConn, FiniteOrUndefined(maxConn0)>>,
                  <<K_smux, IF smuxEnabled THEN Obj(<< <<K_enabled, Bool(TRUE)>> >>) ELSE Undefined>>,
                  <<K_extras, extras>>,
                  <<K_warnings, Arr(w4)>> >>)])])])])])

(***************************************************************************)
(* parsers/tuic-parser.js                                                  *)
(***************************************************************************)
K_congestionController == S(<<"c", "o", "n", "g", "e", "s", "t", "i", "o", "n", "C", "o", "n", "t", "r", "o", "l", "l", "e", "r">>)
K_reduceRtt == S(<<"r", "e", "d", "u", "c", "e", "R", "t", "t">>)
K_requestTimeout == S(<<"r", "e", "q", "u", "e", "s", "t", "T", "i", "m", "e", "o", "u", "t">>)
K_maxUdpRelayPacketSize == S(<<"m", "a", "x", "U", "d", "p", "R", "e", "l", "a", "y", "P", "a", "c", "k", "e", "t", "S", "i", "z", "e">>)

TUIC_normalizeUuid(env, uuidRaw, warnings) ==
  Let([raw \in {Trim(asString(uuidRaw))} |->
  Let([d \in {Trim(asString(base64DecodeUtf8(env, Str(raw))))} |->
    IF raw = <<>>
    THEN [uuid |-> <<>>, warnings |-> Append(warnings, Warn("tuic: missing uuid"))]
    ELSE IF isUuid(Str(raw)) THEN [uuid |-> raw, warnings |-> warnings]
    ELSE IF d # <<>> /\ isUuid(Str(d))
    THEN [uuid |-> d, warnings |-> Append(warnings, Warn("tuic: Base64 uuid"))]
    ELSE [uuid |-> raw, warnings |-> Append(warnings, Warn("tuic: illegal uuid kept"))]])])

TUICParser_parse(env, url) ==
  Let([rawUrl \in {Trim(asString(url))} |->
  Let([u \in {splitUrlLoosely(Str(rawUrl))} |->
  LET w1 == PushIf(<<>>, lower(u.scheme) # <<>> /\ lower(u.scheme) # S(<<"t", "u", "i", "c">>),
                   "tuic: scheme is not tuic")
      authorityText == IF ~IsNullish(u.authority) THEN asString(u.authority) ELSE asString(u.path)
  IN  Let([nameFromFrag \in {IF ~IsNullish(u.fragment) THEN Trim(safeDecodeURIComponent(u.fragment)) ELSE <<>>},
            queryObj \in {parseQuery(u.query)},
            a \in {parseAuthority(Str(authorityText))} |->
  LET uuidFromQuery == Trim(asString(getFirstParam(queryObj, K_uuid)))
      passwordFromQuery == Trim(asString(Coalesce(getFirstParam(queryObj, K_password),
                                                  getFirstParam(queryObj, S(<<"p", "a", "s", "s">>)))))
      sni == TrimOrNull(FirstOf3(queryObj, K_sni, S(<<"p", "e", "e", "r">>), S(<<"s", "e", "r", "v", "e", "r", "n", "a", "m", "e">>)))
      allowInsecure == parseBooleanish(FirstOf3(queryObj, S(<<"a", "l", "l", "o", "w", "I", "n", "s", "e", "c", "u", "r", "e">>), K_insecure,
                                                S(<<"s", "k", "i", "p", "-", "c", "e", "r", "t", "-", "v", "e", "r", "i", "f", "y">>)))
      congestionController == Trim(asString(FirstOf3(queryObj, S(<<"c", "o", "n", "g", "e", "s", "t", "i", "o", "n", "-", "c", "o", "n", "t", "r", "o", "l", "l", "e", "r">>),
                                      S(<<"c", "o", "n", "g", "e", "s", "t", "i", "o", "n", "_", "c", "o", "n", "t", "r", "o", "l", "l", "e", "r">>), K_congestionController)))
      reduceRtt == parseBooleanish(FirstOf3(queryObj, S(<<"r", "e", "d", "u", "c", "e", "-", "r", "t", "t">>), S(<<"r", "e", "d", "u", "c", "e", "_", "r", "t", "t">>), K_reduceRtt))
      requestTimeout0 == parsePositiveInt(FirstOf3(queryObj, S(<<"r", "e", "q", "u", "e", "s", "t", "-", "t", "i", "m", "e", "o", "u", "t">>),
                                                   S(<<"r", "e", "q", "u", "e", "s", "t", "_", "t", "i", "m", "e", "o", "u", "t">>), K_requestTimeout))
      maxUdpRelayPacketSize0 == parsePositiveInt(FirstOf3(queryObj, S(<<"m", "a", "x", "-", "u", "d", "p", "-", "r", "e", "l", "a", "y", "-", "p", "a", "c", "k", "e", "t", "-", "s", "i", "z", "e">>),
                                                          S(<<"m", "a", "x", "_", "u", "d", "p", "_", "r", "e", "l", "a", "y", "_", "p", "a", "c", "k", "e", "t", "_", "s", "i", "z", "e">>), K_maxUdpRelayPacketSize))
      extras == Obj(<< <<K_query, queryObj>>, <<K_rawUrl, Str(rawUrl)>> >>)
  IN  Let([server \in {Trim(safeDecodeURIComponent(Str(asString(a.host))))},
            portNum \in {IF isPort(a.port) THEN a.port ELSE Num(0)},
            userinfo \in {Trim(safeDecodeURIComponent(Str(asString(a.userinfo))))},
            alpn \in {Hysteria2_parseAlpn(getFirstParam(queryObj, K_alpn))} |->
  LET name == IF nameFromFrag # <<>> THEN nameFromFrag
              ELSE IF server # <<>> THEN server
              ELSE S(<<"t", "u", "i", "c">>)
      tls == Obj(<< <<K_enabled, Bool(TRUE)>>,
                    <<K_security, Str(S(<<"t", "l", "s">>))>>,
                    <<K_sni, Or(sni, Null)>>,
                    <<K_alpn, IF alpn.v # <<>> THEN alpn ELSE Undefined>>,
                    <<K_insecure, IF allowInsecure THEN Bool(TRUE) ELSE Undefined>> >>)
  IN  Let([idx \in {IndexOf(userinfo, <<CH_COLON>>)} |->
  LET w2 == PushIf(w1, userinfo # <<>> /\ idx < 0, "tuic: userinfo is not uuid:password")
  IN  Let([uuidRaw \in {IF userinfo = <<>> THEN <<>>
                        ELSE IF idx >= 0 THEN Trim(Slice(userinfo, 0, idx))
                        ELSE Trim(userinfo)},
            passwordRaw \in {IF userinfo # <<>> /\ idx >= 0 THEN Trim(SliceFrom(userinfo, idx + 1)) ELSE <<>>} |->
  Let([nu \in {TUIC_normalizeUuid(env, Str(IF uuidRaw # <<>> THEN uuidRaw ELSE uuidFromQuery), w2)},
        password \in {Trim(IF passwordRaw # <<>> THEN passwordRaw ELSE passwordFromQuery)} |->
  LET w3 == PushIf(nu.warnings, server = <<>>, "tuic: missing server")
      w4 == PushIf(w3, ~Truthy(portNum), "tuic: illegal port")
      w5 == PushIf(w4, nu.uuid = <<>>, "tuic: missing or invalid uuid")
      w6 == PushIf(w5, password = <<>>, "tuic: missing password")
  IN  IF rawUrl = <<>>
      THEN ZeroedNode(S(<<"t", "u", "i", "c">>), <<K_uuid, K_password>>, <<>>, <<Warn("tuic: empty input")>>)
      ELSE Obj(<< <<K_source, Str(S(<<"t", "u", "i", "c">>))>>,
                  <<K_type, Str(S(<<"t", "u", "i", "c">>))>>,
                  <<K_name, Str(name)>>,
                  <<K_server, Str(server)>>,
                  <<K_port, portNum>>,
                  <<K_uuid, Str(nu.uuid)>>,
                  <<K_password, Str(password)>>,
                  <<K_tls, tls>>,
                  <<K_congestionController, OrUndefined(Str(congestionController))>>,
                  <<K_reduceRtt, IF reduceRtt THEN Bool(TRUE) ELSE Undefined>>,
                  <<K_requestTimeout, FiniteOrUndefined(requestTimeout0)>>,
                  <<K_maxUdpRelayPacketSize, FiniteOrUndefined(maxUdpRelayPacketSize0)>>,
                  <<K_extras, extras>>,
                  <<K_warnings, Arr(w6)>> >>)])])])])])])])

(***************************************************************************)
(* Built-ins: JSON.parse, Number(string)                                   *)
(***************************************************************************)
RECURSIVE Pow10(_)
Pow10(n) == IF n = 0 THEN 1 ELSE 10 * Pow10(n - 1)

RECURSIVE StripTrailingZeros(_)
StripTrailingZeros(d) ==
  IF d # <<>> /\ d[Len(d)] = 48 THEN StripTrailingZeros(SubSeq(d, 1, Len(d) - 1)) ELSE d

\* the number written as [-]int[.frac][e[-]exp] with digit strings int, frac
\* and the integer exponent
DecimalValue(neg, int, frac, exponent) ==
  Let([f0 \in {StripTrailingZeros(frac)} |->
  LET \* digits of the mantissa and the power of ten it is scaled by
      m == int \o f0
      e == exponent - Len(f0)
      pad == [i \in 1..(IF 0 - e > Len(m) THEN 0 - e - Len(m) ELSE 0) |-> 48]
  IN  Where2(IF Len(m) + e <= 0 THEN 0 ELSE DigitsValue(SubSeq(m, 1, Len(m) + e)),
            StripTrailingZeros(pad \o SubSeq(m, IF Len(m) + e < 0 THEN 1 ELSE Len(m) + e + 1, Len(m))), LAMBDA whole, digits :
    IF e >= 0 THEN Num((IF neg THEN -1 ELSE 1) * DigitsValue(m) * Pow10(e))
    ELSE IF digits = <<>> THEN Num((IF neg THEN -1 ELSE 1) * whole)
    ELSE Frac(neg, whole, digits))])

IsJsonWhite(c) == c \in {9, 10, 13, 32}

\* the index of the first character from i that is not white space (i itself
\* when it is the index of a failed step)
SkipJsonWhite(s, i) == IF i < 1 \/ i > Len(s) THEN i ELSE FirstAt(s, i, LAMBDA k : ~IsJsonWhite(s[k]))

\* result of a parsing step: the value and the index after it
JsonFail == [ok |-> FALSE, v |-> Null, i |-> 0]
JsonOk(v, i) == [ok |-> TRUE, v |-> v, i |-> i]

\* the character an escape letter stands for (0: not an escape)
JsonEscape(c) ==
  CASE c = CH_QUOTE -> CH_QUOTE
    [] c = CH_BACKSLASH -> CH_BACKSLASH
    [] c = CH_SLASH -> CH_SLASH
    [] c = Code("b") -> 8
    [] c = Code("f") -> 12
    [] c = Code("n") -> 10
    [] c = Code("r") -> 13
    [] c = Code("t") -> 9
    [] OTHER -> 0

\* the characters of a string literal, from index i (after the opening quote)
RECURSIVE JsonChars(_, _, _)
JsonChars(s, from, done) ==
  \* the characters up to the next quote, escape or control character are plain
  Let([i \in {FirstAt(s, from, LAMBDA k : s[k] \in {CH_QUOTE, CH_BACKSLASH} \/ s[k] < 32)} |->
  Let([acc \in {done \o SubSeq(s, from, i - 1)} |->
  IF i > Len(s) THEN JsonFail
  ELSE IF s[i] = CH_QUOTE THEN JsonOk(acc, i + 1)
  ELSE IF s[i] < 32 THEN JsonFail
  ELSE IF i + 1 > Len(s) THEN JsonFail
  ELSE IF s[i + 1] = Code("u")
  THEN IF i + 5 <= Len(s) /\ \A k \in 2..5 : IsHex(s[i + k])
       THEN JsonChars(s, i + 6,
              Append(acc, 4096 * HexVal(s[i + 2]) + 256 * HexVal(s[i + 3])
                          + 16 * HexVal(s[i + 4]) + HexVal(s[i + 5])))
       ELSE JsonFail
  ELSE IF JsonEscape(s[i + 1]) # 0 THEN JsonChars(s, i + 2, Append(acc, JsonEscape(s[i + 1])))
  ELSE JsonFail])])

\* a number literal at index i
JsonNumber(s, i) ==
  LET neg == s[i] = CH_MINUS
  IN  Let([i1 \in {IF neg THEN i + 1 ELSE i} |->
  Let([run \in {DigitPrefix(SliceFrom(s, i1 - 1))} |->
  Let([int \in {IF run # <<>> /\ run[1] = 48 THEN <<48>> ELSE run} |->
  LET i2 == i1 + Len(int)
  IN  Let([hasFrac \in {i2 <= Len(s) /\ s[i2] = CH_DOT} |->
  Let([frac \in {IF hasFrac THEN DigitPrefix(SliceFrom(s, i2)) ELSE <<>>} |->
  Let([i3 \in {IF hasFrac THEN i2 + 1 + Len(frac) ELSE i2} |->
  Let([hasExp \in {i3 <= Len(s) /\ s[i3] \in {Code("e"), Code("E")}} |->
  Let([hasSign \in {hasExp /\ i3 + 1 <= Len(s) /\ s[i3 + 1] \in {CH_PLUS, CH_MINUS}} |->
  LET i4 == IF hasSign THEN i3 + 2 ELSE i3 + 1
  IN  Let([expDigits \in {IF hasExp THEN DigitPrefix(SliceFrom(s, i4 - 1)) ELSE <<>>} |->
  LET exponent == IF hasSign /\ s[i3 + 1] = CH_MINUS THEN 0 - DigitsValue(expDigits)
                  ELSE DigitsValue(expDigits)
  IN  IF int = <<>> \/ (hasFrac /\ frac = <<>>) \/ (hasExp /\ expDigits = <<>>) THEN JsonFail
      ELSE JsonOk(DecimalValue(neg, int, frac, exponent),
                  IF hasExp THEN i4 + Len(expDigits) ELSE i3)])])])])])])])])])

StartsWithAt(s, i, p) == i + Len(p) - 1 <= Len(s) /\ SubSeq(s, i, i + Len(p) - 1) = p

RECURSIVE JsonValue(_, _)
RECURSIVE JsonMembers(_, _, _)
RECURSIVE JsonElements(_, _, _)

\* a value, with the white space before it, from index i0
JsonValue(s, i0) ==
  Let([i \in {SkipJsonWhite(s, i0)} |->
  Let([j \in {SkipJsonWhite(s, i + 1)},
        str \in {JsonChars(s, i + 1, <<>>)} |->
    IF i > Len(s) THEN JsonFail
    ELSE IF s[i] = CH_LBRACE
    THEN (IF j <= Len(s) /\ s[j] = CH_RBRACE THEN JsonOk(Obj(<<>>), j + 1)
          ELSE JsonMembers(s, j, Obj(<<>>)))
    ELSE IF s[i] = CH_LBRACKET
    THEN (IF j <= Len(s) /\ s[j] = CH_RBRACKET THEN JsonOk(Arr(<<>>), j + 1)
          ELSE JsonElements(s, j, <<>>))
    ELSE IF s[i] = CH_QUOTE THEN (IF str.ok THEN JsonOk(Str(str.v), str.i) ELSE JsonFail)
    ELSE IF s[i] = CH_MINUS \/ IsDigit(s[i]) THEN JsonNumber(s, i)
    ELSE IF StartsWithAt(s, i, S(<<"t", "r", "u", "e">>)) THEN JsonOk(Bool(TRUE), i + 4)
    ELSE IF StartsWithAt(s, i, S(<<"f", "a", "l", "s", "e">>)) THEN JsonOk(Bool(FALSE), i + 5)
    ELSE IF StartsWithAt(s, i, S(<<"n", "u", "l", "l">>)) THEN JsonOk(Null, i + 4)
    ELSE JsonFail])])

\* the members of an object from index i (at the first key); a repeated key
\* keeps its place and takes the later value
JsonMembers(s, i, acc) ==
  Let([key \in {JsonChars(s, i + 1, <<>>)} |->
  Where(SkipJsonWhite(s, key.i), LAMBDA colon :
  LET val == JsonValue(s, colon + 1)
  IN  Where(SkipJsonWhite(s, val.i), LAMBDA next :
    IF i > Len(s) \/ s[i] # CH_QUOTE THEN JsonFail
    ELSE IF ~key.ok THEN JsonFail
    ELSE IF colon > Len(s) \/ s[colon] # CH_COLON THEN JsonFail
    ELSE IF ~val.ok THEN JsonFail
    ELSE IF next > Len(s) THEN JsonFail
    ELSE IF s[next] = CH_RBRACE THEN JsonOk(Put(acc, key.v, val.v), next + 1)
    ELSE IF s[next] = CH_COMMA
    THEN JsonMembers(s, SkipJsonWhite(s, next + 1), Put(acc, key.v, val.v))
    ELSE JsonFail))])

JsonElements(s, i, acc) ==
  LET val == JsonValue(s, i)
  IN  Let([next \in {SkipJsonWhite(s, val.i)} |->
    IF ~val.ok THEN JsonFail
    ELSE IF next > Len(s) THEN JsonFail
    ELSE IF s[next] = CH_RBRACKET THEN JsonOk(Arr(Append(acc, val.v)), next + 1)
    ELSE IF s[next] = CH_COMMA THEN JsonElements(s, next + 1, Append(acc, val.v))
    ELSE JsonFail])

\* JSON.parse(s): the value, or a SyntaxError
JSON_parse(s) ==
  Let([r \in {JsonValue(s, 1)} |->
    IF r.ok /\ SkipJsonWhite(s, r.i) > Len(s) THEN Returned(r.v) ELSE Threw])

(***************************************************************************)
(* parsers/vmess-parser.js                                                 *)
(***************************************************************************)
asObject(x) == IF x.t = "object" THEN x ELSE Null

\* /^[+-]?\d+(\.\d+)?$/ : the sign, integer digits and fraction digits, or no match
DecimalParts(s) ==
  Let([signed \in {s # <<>> /\ Head(s) \in {CH_PLUS, CH_MINUS}} |->
  LET body == IF signed THEN Tail(s) ELSE s
  IN  Let([dot \in {IndexOf(body, <<CH_DOT>>)} |->
  Let([int \in {IF dot >= 0 THEN Slice(body, 0, dot) ELSE body},
        frac \in {IF dot >= 0 THEN SliceFrom(body, dot + 1) ELSE <<>>} |->
    [ok |-> AllDigits(int) /\ (dot < 0 \/ AllDigits(frac)),
     neg |-> signed /\ Head(s) = CH_MINUS, int |-> int, frac |-> frac]])])])

parseNumberish(x) ==
  Let([s \in {Trim(asString(x))} |->
  Let([d \in {DecimalParts(s)} |->
    IF x.t = "number" /\ x.k \in {"int", "frac"} THEN x
    ELSE IF s = <<>> THEN NaN
    ELSE IF ~d.ok THEN NaN
    ELSE DecimalValue(d.neg, d.int, d.frac, 0)])])

VMess_parseAlpn(x) == Hysteria2_parseAlpn(x)

TLS_TOKEN_SET ==
  {S(<<"t", "l", "s">>), S(<<"x", "t", "l", "s">>), S(<<"r", "e", "a", "l", "i", "t", "y">>), S(<<"n", "o", "n", "e">>), S(<<"t", "r", "u", "e">>), S(<<"f", "a", "l", "s", "e">>), S(<<"1">>), S(<<"0">>), S(<<"o", "n">>), S(<<"o", "f", "f">>)}

\* isTlsToken knowing only "tls" (a variant the parser does not use:
\* SecurityIsTlsOrCipher fails under it)
isTlsTokenOnlyTls(x) == lower(x) = S(<<"t", "l", "s">>)

isTlsToken(x) == lower(x) # <<>> /\ lower(x) \in TLS_TOKEN_SET

parseTlsMode(x) ==
  Let([s \in {lower(x)} |->
    IF s = <<>> \/ s \in {S(<<"n", "o", "n", "e">>), S(<<"f", "a", "l", "s", "e">>), S(<<"0">>), S(<<"o", "f", "f">>)}
    THEN [enabled |-> FALSE, security |-> Null, unknown |-> Undefined]
    ELSE IF s \in {S(<<"t", "l", "s">>), S(<<"x", "t", "l", "s">>), S(<<"1">>), S(<<"t", "r", "u", "e">>), S(<<"o", "n">>)}
    THEN [enabled |-> TRUE, security |-> Str(S(<<"t", "l", "s">>)), unknown |-> Undefined]
    ELSE IF s = S(<<"r", "e", "a", "l", "i", "t", "y">>)
    THEN [enabled |-> TRUE, security |-> Str(S(<<"r", "e", "a", "l", "i", "t", "y">>)), unknown |-> Undefined]
    ELSE [enabled |-> FALSE, security |-> Null, unknown |-> Str(s)]])

VMess_normalizeUuid(env, uuidRaw, warnings) ==
  Let([raw \in {Trim(asString(uuidRaw))} |->
  Let([decodedTrim \in {Trim(asString(base64DecodeUtf8(env, Str(raw))))} |->
    IF raw = <<>>
    THEN [uuid |-> <<>>, warnings |-> Append(warnings, Warn("vmess: missing id"))]
    ELSE IF isUuid(Str(raw)) THEN [uuid |-> raw, warnings |-> warnings]
    ELSE IF decodedTrim # <<>> /\ isUuid(Str(decodedTrim))
    THEN [uuid |-> decodedTrim, warnings |-> Append(warnings, Warn("vmess: Base64 id"))]
    ELSE [uuid |-> raw, warnings |-> Append(warnings, Warn("vmess: illegal id"))]])])

\* s.replace(/,\s*([}\]])/g, "$1")
RECURSIVE RemoveTrailingCommas(_, _)
RemoveTrailingCommas(s, from) ==
  Let([i \in {FirstAt(s, from, LAMBDA k : s[k] = CH_COMMA)} |->
  Let([rest \in {TrimStart(SliceFrom(s, i))} |->
  Let([skipped \in {Len(s) - i - Len(rest)} |->
    IF i > Len(s) THEN SubSeq(s, from, Len(s))
    ELSE IF rest # <<>> /\ Head(rest) \in {CH_RBRACE, CH_RBRACKET}
    THEN SubSeq(s, from, i - 1) \o <<Head(rest)>> \o RemoveTrailingCommas(s, i + skipped + 2)
    ELSE SubSeq(s, from, i) \o RemoveTrailingCommas(s, i + 1)])])])

\* the push made after a successful JSON.parse when the value is not an object
PushNotObject(warnings, parsed) ==
  PushIf(warnings, IsNullish(asObject(parsed)), "vmess: JSON is not an object")

parseJsonLoosely(text, warnings) ==
  Let([raw \in {asString(text)} |->
  Let([s0 \in {Trim(IF raw # <<>> /\ Head(raw) = CH_BOM THEN Tail(raw) ELSE raw)} |->
  Let([strict \in {JSON_parse(s0)},
        i \in {IndexOf(s0, <<CH_LBRACE>>)},
        j \in {LastIndexOf(s0, <<CH_RBRACE>>)},
        fixed \in {RemoveTrailingCommas(s0, 1)} |->
  Let([sub \in {Slice(s0, i, j + 1)},
        fixedParsed \in {JSON_parse(fixed)} |->
  Let([subParsed \in {JSON_parse(sub)} |->
    IF s0 = <<>>
    THEN [obj |-> Null, raw |-> s0, warnings |-> Append(warnings, Warn("vmess: JSON is empty"))]
    ELSE IF strict.ok
    THEN [obj |-> asObject(strict.v), raw |-> s0, warnings |-> PushNotObject(warnings, strict.v)]
    ELSE IF i >= 0 /\ j > i /\ subParsed.ok
    THEN [obj |-> asObject(subParsed.v), raw |-> sub,
          warnings |-> Append(PushNotObject(warnings, subParsed.v),
                              Warn("vmess: JSON taken from the {...} substring"))]
    ELSE IF fixed # s0 /\ fixedParsed.ok
    THEN [obj |-> asObject(fixedParsed.v), raw |-> fixed,
          warnings |-> Append(PushNotObject(warnings, fixedParsed.v),
                              Warn("vmess: JSON parsed after removing trailing commas"))]
    ELSE [obj |-> Null, raw |-> s0,
          warnings |-> Append(warnings, Warn("vmess: JSON cannot be parsed"))]])])])])])

\* a ?? b ?? c over three properties of an object
Prop3(o, k1, k2, k3) == Coalesce(Coalesce(Get(o, k1), Get(o, k2)), Get(o, k3))

\* Number.isInteger(x)
IsInteger(x) == x.t = "number" /\ x.k = "int"

\* x != null ? asString(x) : undefined
StringOrUndefined(x) == IF IsNullish(x) THEN Undefined ELSE Str(asString(x))

\* /^vmess:/i removed, then /^\/{2}/ removed
StripVmessPrefix(s) ==
  Let([a \in {IF Len(s) >= 6 /\ ToLowerCase(SubSeq(s, 1, 5)) = S(<<"v", "m", "e", "s", "s">>) /\ s[6] = CH_COLON
                   /\ \A k \in 1..5 : s[k] < 128
              THEN SliceFrom(s, 6) ELSE s} |->
    IF StartsWith(a, <<CH_SLASH, CH_SLASH>>) THEN SliceFrom(a, 2) ELSE a])

K_alterId == S(<<"a", "l", "t", "e", "r", "I", "d">>)
K_cipher == S(<<"c", "i", "p", "h", "e", "r">>)
K_h2 == S(<<"h", "2">>)
K_path == S(<<"p", "a", "t", "h">>)
K_host == S(<<"h", "o", "s", "t">>)

\* hostRaw.split(",").map((x) => x.trim()).filter(Boolean)[0] || ""
FirstListed(hostRaw) ==
  Let([items \in {TrimmedNonEmpty(SplitOn(hostRaw, {CH_COMMA})).v} |->
    IF hostRaw # <<>> /\ items # <<>> THEN items[1].v ELSE <<>>])

VMessParser_parse(env, url) ==
  Let([rawUrl \in {Trim(asString(url))},
        supported \in {{S(<<"t", "c", "p">>), K_ws, K_grpc, K_http, K_h2}} |->
  Let([m \in {IF SchemeLen(rawUrl) > 0
                 /\ StartsWithAt(rawUrl, SchemeLen(rawUrl) + 2, <<CH_SLASH, CH_SLASH>>)
              THEN SchemeLen(rawUrl) ELSE 0} |->
  Let([scheme \in {IF m > 0 THEN Str(Slice(rawUrl, 0, m)) ELSE Null},
        afterScheme \in {IF m > 0 THEN SliceFrom(rawUrl, m + 3) ELSE StripVmessPrefix(rawUrl)} |->
  Let([w1 \in {PushIf(<<>>, Truthy(scheme) /\ lower(scheme) # S(<<"v", "m", "e", "s", "s">>), "vmess: scheme is not vmess")},
        hashIndex \in {IndexOf(afterScheme, <<CH_HASH>>)} |->
  Let([beforeHash \in {IF hashIndex >= 0 THEN Slice(afterScheme, 0, hashIndex) ELSE afterScheme},
        fragmentRaw \in {IF hashIndex >= 0 THEN Str(SliceFrom(afterScheme, hashIndex + 1)) ELSE Null} |->
  Let([qIndex \in {IndexOf(beforeHash, <<CH_QM>>)},
        fragmentName \in {IF ~IsNullish(fragmentRaw) THEN safeDecodeURIComponent(fragmentRaw) ELSE <<>>} |->
  LET payloadRaw0 == IF qIndex >= 0 THEN Slice(beforeHash, 0, qIndex) ELSE beforeHash
  IN  Let([queryRaw \in {IF qIndex >= 0 THEN Str(SliceFrom(beforeHash, qIndex + 1)) ELSE Null},
            payloadRaw \in {safeDecodeURIComponent(Str(payloadRaw0))} |->
  Let([decoded \in {base64DecodeUtf8(env, Str(payloadRaw))},
        maybeJson \in {Trim(payloadRaw)} |->
  Let([directJson \in {StartsWith(maybeJson, <<CH_LBRACE>>) /\ EndsWith(maybeJson, <<CH_RBRACE>>)} |->
  LET jsonText == IF IsNullish(decoded) THEN (IF directJson THEN maybeJson ELSE <<>>)
                  ELSE Trim(asString(decoded))
      w2 == IF IsNullish(decoded)
            THEN Append(w1, IF directJson THEN Warn("vmess: payload is plain JSON")
                            ELSE Warn("vmess: Base64 decoding failed"))
            ELSE w1
  IN  Let([pj \in {parseJsonLoosely(Str(jsonText), w2)} |->
  Let([vmObj \in {Or(pj.obj, Obj(<<>>))} |->
  Let([ps \in {Trim(asString(Get(vmObj, S(<<"p", "s">>))))},
        add \in {Trim(asString(Prop3(vmObj, S(<<"a", "d", "d">>), K_server, S(<<"a", "d", "d", "r">>))))},
        portRaw \in {Get(vmObj, K_port)},
        alterIdRaw \in {Prop3(vmObj, S(<<"a", "i", "d">>), K_alterId, S(<<"a", "l", "t", "e", "r", "I", "D">>))},
        securityRaw \in {Get(vmObj, K_security)},
        sni \in {TrimOrNull(Prop3(vmObj, K_sni, S(<<"s", "e", "r", "v", "e", "r", "n", "a", "m", "e">>), S(<<"s", "e", "r", "v", "e", "r", "N", "a", "m", "e">>)))} |->
  Let([alpn \in {VMess_parseAlpn(Get(vmObj, K_alpn))},
        netRaw \in {Coalesce(Get(vmObj, S(<<"n", "e", "t">>)), Get(vmObj, K_network))},
        headerType \in {lower(Get(vmObj, K_type))},
        hostRaw \in {Trim(asString(Get(vmObj, K_host)))},
        pathRaw \in {Trim(asString(Get(vmObj, K_path)))},
        serviceName0 \in {Trim(asString(Prop3(vmObj, S(<<"s", "e", "r", "v", "i", "c", "e", "N", "a", "m", "e">>), S(<<"s", "e", "r", "v", "i", "c", "e", "n", "a", "m", "e">>), S(<<"s", "e", "r", "v", "i", "c", "e", "-", "n", "a", "m", "e">>))))} |->
  LET name == Trim(IF Trim(fragmentName) # <<>> THEN Trim(fragmentName)
                   ELSE IF ps # <<>> THEN ps
                   ELSE IF add # <<>> THEN add
                   ELSE S(<<"v", "m", "e", "s", "s">>))
      serviceName == IF serviceName0 # <<>> THEN serviceName0 ELSE pathRaw
  IN  Let([portNum0 \in {parseNumberish(portRaw)},
            alterId0 \in {parseNumberish(alterIdRaw)},
            securityStr \in {Trim(asString(securityRaw))},
            hasTlsHints \in {Truthy(sni) \/ alpn.v # <<>>},
            net0 \in {IF lower(netRaw) # <<>> THEN lower(netRaw) ELSE S(<<"t", "c", "p">>)},
            hostFirst \in {FirstListed(hostRaw)} |->
  Let([path \in {Str(IF pathRaw # <<>> THEN pathRaw ELSE <<CH_SLASH>>)} |->
  LET alterId == IF IsInteger(alterId0) /\ alterId0.v >= 0 THEN alterId0 ELSE Num(0)
  IN  Let([portNum \in {IF IsInteger(portNum0) /\ isPort(portNum0) THEN portNum0 ELSE Num(0)},
            isSecurityTls \in {isTlsToken(Str(securityStr))},
            net1 \in {IF net0 = S(<<"t", "c", "p">>) /\ headerType = K_http THEN K_http ELSE net0} |->
  LET w3 == PushIf(pj.warnings, ~Truthy(portNum), "vmess: illegal port")
  IN  Let([nu \in {VMess_normalizeUuid(env, Coalesce(Get(vmObj, S(<<"i", "d">>)), Get(vmObj, K_uuid)), w3)},
            cipherRaw \in {Coalesce(Coalesce(Get(vmObj, S(<<"s", "c", "y">>)), Get(vmObj, K_cipher)),
                                    IF ~isSecurityTls /\ securityStr # <<>> THEN securityRaw ELSE Undefined)},
            tlsRaw \in {Coalesce(Coalesce(Get(vmObj, K_tls),
                                          IF isSecurityTls THEN securityRaw ELSE Undefined),
                                 Get(vmObj, S(<<"t", "l", "s", "M", "o", "d", "e">>)))},
            finalNetwork \in {IF net1 \in supported THEN net1 ELSE S(<<"t", "c", "p">>)} |->
  LET w4 == PushIf(nu.warnings, ~IsNullish(alterIdRaw) /\ ~IsInteger(alterId0), "vmess: illegal alterId")
      cipher == IF Trim(asString(cipherRaw)) # <<>> THEN Trim(asString(cipherRaw)) ELSE S(<<"a", "u", "t", "o">>)
      w5 == PushIf(w4, add = <<>>, "vmess: missing server")
      w6 == PushIf(w5, nu.uuid # <<>> /\ ~isUuid(Str(nu.uuid)), "vmess: id is not a standard UUID")
      transport == Obj(<< <<K_network, Str(finalNetwork)>>,
                          <<K_ws, IF finalNetwork = K_ws
                                  THEN Obj(<< <<K_path, path>>, <<K_host, OrUndefined(Str(hostFirst))>> >>)
                                  ELSE Undefined>>,
                          <<K_grpc, IF finalNetwork = K_grpc
                                    THEN Obj(<< <<S(<<"s", "e", "r", "v", "i", "c", "e", "N", "a", "m", "e">>), OrUndefined(Str(serviceName))>>,
                                                <<S(<<"m", "o", "d", "e">>), OrUndefined(Str(headerType))>> >>)
                                    ELSE Undefined>>,
                          <<K_http, IF finalNetwork = K_http
                                    THEN Obj(<< <<K_path, path>>, <<K_host, OrUndefined(Str(hostFirst))>> >>)
                                    ELSE Undefined>>,
                          <<K_h2, IF finalNetwork = K_h2
                                  THEN Obj(<< <<K_path, path>>, <<K_host, OrUndefined(Str(hostRaw))>> >>)
                                  ELSE Undefined>> >>)
      extras == Obj(<< <<S(<<"v">>), OrUndefined(Str(Trim(asString(Get(vmObj, S(<<"v">>))))))>>,
                       <<S(<<"p", "s">>), OrUndefined(Str(ps))>>,
                       <<S(<<"a", "d", "d", "R", "a", "w">>), OrUndefined(Str(add))>>,
                       <<S(<<"p", "o", "r", "t", "R", "a", "w">>), StringOrUndefined(portRaw)>>,
                       <<S(<<"i", "d", "R", "a", "w">>), StringOrUndefined(Get(vmObj, S(<<"i", "d">>)))>>,
                       <<S(<<"a", "i", "d", "R", "a", "w">>), StringOrUndefined(alterIdRaw)>>,
                       <<S(<<"n", "e", "t", "R", "a", "w">>), StringOrUndefined(netRaw)>>,
                       <<S(<<"t", "y", "p", "e", "R", "a", "w">>), StringOrUndefined(Get(vmObj, K_type))>>,
                       <<S(<<"h", "o", "s", "t", "R", "a", "w">>), OrUndefined(Str(hostRaw))>>,
                       <<S(<<"p", "a", "t", "h", "R", "a", "w">>), OrUndefined(Str(pathRaw))>>,
                       <<S(<<"t", "l", "s", "R", "a", "w">>), StringOrUndefined(tlsRaw)>>,
                       <<K_query, IF Truthy(queryRaw) THEN parseQuery(queryRaw) ELSE Undefined>>,
                       <<S(<<"r", "a", "w", "B", "a", "s", "e", "6", "4">>), OrUndefined(Str(payloadRaw))>>,
                       <<S(<<"r", "a", "w", "J", "s", "o", "n", "T", "e", "x", "t">>), OrUndefined(Str(pj.raw))>>,
                       <<K_rawUrl, Str(rawUrl)>> >>)
  IN  Let([tlsMode \in {parseTlsMode(tlsRaw)} |->
  LET w7 == PushIf(w6, Truthy(tlsMode.unknown), "vmess: unknown tls value")
      inferred == ~tlsMode.enabled /\ hasTlsHints
      tlsEnabled == tlsMode.enabled \/ hasTlsHints
      w8 == PushIf(w7, inferred, "vmess: tls inferred from sni/alpn")
  IN  Let([tlsSecurity \in {IF inferred THEN Str(S(<<"t", "l", "s">>)) ELSE tlsMode.security} |->
  LET w9 == PushIf(w8, tlsEnabled /\ tlsSecurity = Str(S(<<"r", "e", "a", "l", "i", "t", "y">>)), "vmess: reality is output as tls")
      tls == Obj(<< <<K_enabled, Bool(tlsEnabled)>>,
                    <<K_security, tlsSecurity>>,
                    <<K_sni, Or(sni, Null)>>,
                    <<K_alpn, IF alpn.v # <<>> THEN alpn ELSE Undefined>> >>)
      w10 == PushIf(w9, net1 \notin supported /\ net1 # <<>>, "vmess: unsupported transport net")
  IN  IF rawUrl = <<>>
      THEN ZeroedNode(S(<<"v", "m", "e", "s", "s">>), <<K_uuid>>, <<>>, <<Warn("vmess: empty input")>>)
      ELSE Obj(<< <<K_source, Str(S(<<"v", "m", "e", "s", "s">>))>>,
                  <<K_type, Str(S(<<"v", "m", "e", "s", "s">>))>>,
                  <<K_name, Str(name)>>,
                  <<K_server, Str(add)>>,
                  <<K_port, portNum>>,
                  <<K_uuid, Str(nu.uuid)>>,
                  <<K_alterId, alterId>>,
                  <<K_cipher, Str(cipher)>>,
                  <<K_tls, tls>>,
                  <<K_transport, transport>>,
                  <<K_extras, extras>>,
                  <<K_warnings, Arr(w10)>> >>)])])])])])])])])])])])])])])])])])])])

(***************************************************************************)
(* parsers/ss-parser.js                                                    *)
(***************************************************************************)
K_plugin == S(<<"p", "l", "u", "g", "i", "n">>)
K_pluginOpts == S(<<"p", "l", "u", "g", "i", "n", "O", "p", "t", "s">>)

\* the extraction that splits the query at ";" as parseQuery does (a variant
\* the ss parser does not use: PluginKeptWhole fails under it)
getRawQueryFirstParamAtSemicolon(query, key) ==
  Let([s \in {QueryText(query)} |->
    IF s = <<>> THEN Null
    ELSE RawFirstParam(SplitOn(s, {CH_AMP, CH_SEMI}), key)])

getRawQueryFirstParamNoSemicolon(query, key) ==
  Let([s \in {QueryText(query)} |->
    IF s = <<>> THEN Null
    ELSE RawFirstParam(SplitOn(s, {CH_AMP}), key)])

parseMethodPassword(text, warnings) ==
  Let([s \in {Trim(asString(text))} |->
  Let([idx \in {IndexOf(s, <<CH_COLON>>)} |->
  Let([method \in {Trim(Slice(s, 0, idx))},
        password \in {Trim(SliceFrom(s, idx + 1))} |->
    IF s = <<>>
    THEN [method |-> <<>>, password |-> <<>>,
          warnings |-> Append(warnings, Warn("ss: missing method:password"))]
    ELSE IF idx < 0
    THEN [method |-> Trim(s), password |-> <<>>,
          warnings |-> Append(warnings, Warn("ss: method:password without colon"))]
    ELSE [method |-> method, password |-> password,
          warnings |-> PushIf(PushIf(warnings, method = <<>>, "ss: missing method"),
                              password = <<>>, "ss: missing password")]])])])

parseUserinfoToCreds(env, userinfoRaw, warnings) ==
  Let([userinfo \in {Trim(safeDecodeURIComponent(Str(asString(userinfoRaw))))} |->
  Let([decoded \in {base64DecodeUtf8(env, Str(userinfo))},
        fromPlain \in {parseMethodPassword(Str(userinfo), warnings)} |->
  Let([d \in {Trim(asString(decoded))} |->
  Let([fromDecoded \in {parseMethodPassword(Str(d), Append(warnings, Warn("ss: Base64 userinfo decoded")))} |->
    IF userinfo = <<>>
    THEN [method |-> <<>>, password |-> <<>>, userinfoDecoded |-> <<>>,
          warnings |-> Append(warnings, Warn("ss: missing userinfo"))]
    ELSE IF ~IsNullish(decoded) /\ d # <<>> /\ Includes(d, <<CH_COLON>>)
    THEN [method |-> fromDecoded.method, password |-> fromDecoded.password,
          userinfoDecoded |-> d, warnings |-> fromDecoded.warnings]
    ELSE [method |-> fromPlain.method, password |-> fromPlain.password,
          userinfoDecoded |-> <<>>, warnings |-> fromPlain.warnings]])])])])

\* the loop over parts.slice(1) that fills opts
RECURSIVE PluginOpts(_, _)
PluginOpts(segs, opts) ==
  IF segs = <<>> THEN opts
  ELSE Let([p \in {Trim(Head(segs).v)} |->
       Let([eq \in {IndexOf(p, <<CH_EQ>>)} |->
       LET v == Trim(SliceFrom(p, eq + 1))
       IN  Let([k \in {Trim(Slice(p, 0, eq))} |->
         IF p = <<>> THEN PluginOpts(Tail(segs), opts)
         ELSE IF eq < 0 THEN PluginOpts(Tail(segs), Put(opts, p, Bool(TRUE)))
         ELSE IF k = <<>> THEN PluginOpts(Tail(segs), opts)
         ELSE PluginOpts(Tail(segs), Put(opts, k, Str(v)))])])])

parsePlugin(pluginValue, warnings) ==
  Let([raw \in {Trim(asString(pluginValue))} |->
  Let([s \in {Trim(safeDecodeURIComponent(Str(raw)))} |->
  Let([parts \in {TrimmedNonEmpty(SplitOn(s, {CH_SEMI})).v} |->
  LET plugin == parts[1].v
  IN  Let([opts \in {PluginOpts(SliceFrom(parts, 1), Obj(<<>>))} |->
    IF raw = <<>>
    THEN [plugin |-> <<>>, pluginOpts |-> Undefined, pluginRaw |-> <<>>, warnings |-> warnings]
    ELSE IF s = <<>>
    THEN [plugin |-> <<>>, pluginOpts |-> Undefined, pluginRaw |-> raw, warnings |-> warnings]
    ELSE IF parts = <<>>
    THEN [plugin |-> <<>>, pluginOpts |-> Undefined, pluginRaw |-> s, warnings |-> warnings]
    ELSE [plugin |-> plugin,
          pluginOpts |-> IF opts.v # <<>> THEN opts ELSE Undefined,
          pluginRaw |-> s,
          warnings |-> PushIf(warnings, plugin = <<>>, "ss: empty plugin name")]])])])])

SSParser_parse(env, url) ==
  Let([rawUrl \in {Trim(asString(url))} |->
  Let([u \in {splitUrlLoosely(Str(rawUrl))} |->
  LET w1 == PushIf(<<>>, lower(u.scheme) # <<>> /\ lower(u.scheme) # S(<<"s", "s">>), "ss: scheme is not ss")
      authorityText == IF ~IsNullish(u.authority) THEN asString(u.authority) ELSE asString(u.path)
  IN  Let([nameFromFrag \in {IF ~IsNullish(u.fragment) THEN Trim(safeDecodeURIComponent(u.fragment)) ELSE <<>>},
            queryObj \in {parseQuery(u.query)},
            pluginFromRaw \in {getRawQueryFirstParamNoSemicolon(u.query, K_plugin)},
            a1 \in {parseAuthority(Str(authorityText))} |->
  LET pluginValue == IF ~IsNullish(pluginFromRaw) THEN pluginFromRaw
                     ELSE getFirstParam(queryObj, K_plugin)
      hasOuterHostPort == Truthy(a1.host) /\ TypeOf(a1.port) = "number"
      hasUserinfo == ~IsNullish(a1.userinfo) /\ Trim(asString(a1.userinfo)) # <<>>
      \* the whole authority is Base64
      payloadB64 == Trim(safeDecodeURIComponent(a1.host))
  IN  Let([pluginParsed \in {parsePlugin(pluginValue, w1)},
            port1 \in {\* outer host:port, credentials in the userinfo
                       IF isPort(a1.port) THEN a1.port ELSE Num(0)},
            decoded \in {base64DecodeUtf8(env, Str(payloadB64))} |->
  LET w2 == pluginParsed.warnings
  IN  Let([creds1 \in {parseUserinfoToCreds(env, a1.userinfo, PushIf(w2, ~Truthy(port1), "ss: illegal port"))},
            a2 \in {parseAuthority(Str(Trim(asString(decoded))))} |->
  Let([creds2 \in {parseUserinfoToCreds(env, a2.userinfo,
                     PushIf(w2, ~Truthy(a2.userinfo), "ss: decoded payload without userinfo"))},
        server2 \in {Trim(safeDecodeURIComponent(Str(asString(a2.host))))},
        port2 \in {IF isPort(a2.port) THEN a2.port ELSE Num(0)} |->
  Let([r \in {IF hasOuterHostPort
              THEN [server |-> Trim(safeDecodeURIComponent(a1.host)), port |-> port1,
                    method |-> creds1.method, password |-> creds1.password,
                    format |-> IF creds1.userinfoDecoded # <<>> THEN S(<<"l", "e", "g", "a", "c", "y">>) ELSE S(<<"s", "i", "p", "0", "0", "2", "-", "p", "l", "a", "i", "n">>),
                    warnings |-> creds1.warnings]
              ELSE IF ~hasUserinfo /\ Truthy(a1.host)
              THEN (IF IsNullish(decoded)
                    THEN [server |-> <<>>, port |-> Num(0), method |-> <<>>, password |-> <<>>,
                          format |-> S(<<"u", "n", "k", "n", "o", "w", "n">>),
                          warnings |-> Append(w2, Warn("ss: Base64 decoding failed"))]
                    ELSE [server |-> server2, port |-> port2,
                          method |-> creds2.method, password |-> creds2.password,
                          format |-> S(<<"s", "i", "p", "0", "0", "2", "-", "b", "a", "s", "e", "6", "4">>),
                          warnings |-> PushIf(PushIf(creds2.warnings, server2 = <<>>,
                                                     "ss: decoded payload without host"),
                                              ~Truthy(port2), "ss: illegal port")])
              ELSE [server |-> <<>>, port |-> Num(0), method |-> <<>>, password |-> <<>>,
                    format |-> S(<<"u", "n", "k", "n", "o", "w", "n">>),
                    warnings |-> Append(w2, Warn("ss: unrecognised structure"))]} |->
  LET w3 == PushIf(r.warnings, r.server = <<>>, "ss: missing server")
      w4 == PushIf(w3, ~Truthy(r.port), "ss: missing port")
      w5 == PushIf(w4, r.method = <<>>, "ss: missing method")
      w6 == PushIf(w5, r.password = <<>>, "ss: missing password")
      name == IF nameFromFrag # <<>> THEN nameFromFrag
              ELSE IF r.server # <<>> THEN r.server
              ELSE S(<<"s", "s">>)
      extras == Obj(<< <<S(<<"f", "o", "r", "m", "a", "t">>), Str(r.format)>>,
                       <<S(<<"p", "l", "u", "g", "i", "n", "R", "a", "w">>), OrUndefined(Str(pluginParsed.pluginRaw))>>,
                       <<K_query, queryObj>>,
                       <<K_rawUrl, Str(rawUrl)>> >>)
  IN  IF rawUrl = <<>>
      THEN ZeroedNode(S(<<"s", "s">>), <<K_cipher, K_password>>, <<>>, <<Warn("ss: empty input")>>)
      ELSE Obj(<< <<K_source, Str(S(<<"s", "s">>))>>,
                  <<K_type, Str(S(<<"s", "s">>))>>,
                  <<K_name, Str(name)>>,
                  <<K_server, Str(r.server)>>,
                  <<K_port, r.port>>,
                  <<K_cipher, Str(r.method)>>,
                  <<K_password, Str(r.password)>>,
                  <<K_plugin, OrUndefined(Str(pluginParsed.plugin))>>,
                  <<K_pluginOpts, pluginParsed.pluginOpts>>,
                  <<K_extras, extras>>,
                  <<K_warnings, Arr(w6)>> >>)])])])])])])])

(***************************************************************************)
(* parsers/ssr-parser.js                                                   *)
(***************************************************************************)
K_protocol == S(<<"p", "r", "o", "t", "o", "c", "o", "l">>)
K_rawBase64 == S(<<"r", "a", "w", "B", "a", "s", "e", "6", "4">>)

parseQueryNoPlus(query) ==
  Let([s \in {QueryText(query)} |->
    IF s = <<>> THEN Obj(<<>>)
    ELSE Let([parts \in {SplitOn(s, {CH_AMP, CH_SEMI})} |-> ParseQueryParts(parts, Len(parts), FALSE)])])

\* returns the text and the warnings list after the push
decodeBase64ToTextMaybe(env, b64, warnings, label) ==
  Let([raw \in {Trim(asString(b64))} |->
  Let([decoded \in {base64DecodeUtf8(env, Str(raw))} |->
    IF raw = <<>> THEN [text |-> <<>>, warnings |-> warnings]
    ELSE IF IsNullish(decoded) THEN [text |-> raw, warnings |-> Append(warnings, Warn(label))]
    ELSE [text |-> asString(decoded), warnings |-> warnings]])])

\* the fields of an unparsed SSR main part
SsrMainEmpty(warnings) ==
  [server |-> <<>>, port |-> Num(0), protocol |-> <<>>, method |-> <<>>, obfs |-> <<>>,
   password |-> <<>>, passwordB64 |-> <<>>, warnings |-> warnings]

\* parseSsrMain cutting the fields from the left (a variant the parser does
\* not use: SsrFieldsFromTheRight fails under it)
parseSsrMainFromTheLeft(main, warnings) ==
  Let([parts \in {SplitOn(Trim(asString(main)), {CH_COLON})} |->
  Let([pn \in {IF Len(parts) >= 6 THEN ParseInt(Trim(parts[2])) ELSE NaN} |->
    IF Trim(asString(main)) = <<>> THEN SsrMainEmpty(Append(warnings, Warn("ssr: main part is empty")))
    ELSE IF Len(parts) < 6
    THEN SsrMainEmpty(Append(warnings, Warn("ssr: main part cannot be parsed")))
    ELSE [server |-> Trim(parts[1]), port |-> IF isPort(pn) THEN pn ELSE Num(0),
          protocol |-> Trim(parts[3]), method |-> Trim(parts[4]), obfs |-> Trim(parts[5]),
          password |-> <<>>,
          passwordB64 |-> Trim(JoinWith(SubSeq(parts, 6, Len(parts)), <<CH_COLON>>)),
          warnings |-> PushIf(warnings, ~isPort(pn), "ssr: illegal port")]])])

parseSsrMain(main, warnings) ==
  Let([s0 \in {Trim(asString(main))} |->
  Let([i5 \in {LastIndexOf(s0, <<CH_COLON>>)} |->
  LET passwordB64 == SliceFrom(s0, i5 + 1)
      rest4 == Slice(s0, 0, i5)
  IN  Let([i4 \in {LastIndexOf(rest4, <<CH_COLON>>)} |->
  LET obfs == SliceFrom(rest4, i4 + 1)
  IN  Let([rest3 \in {Slice(rest4, 0, i4)} |->
  Let([i3 \in {LastIndexOf(rest3, <<CH_COLON>>)} |->
  LET method == SliceFrom(rest3, i3 + 1)
      rest2 == Slice(rest3, 0, i3)
  IN  Let([i2 \in {LastIndexOf(rest2, <<CH_COLON>>)} |->
  LET protocol == SliceFrom(rest2, i2 + 1)
  IN  Let([rest1 \in {Slice(rest2, 0, i2)} |->
  Let([i1 \in {LastIndexOf(rest1, <<CH_COLON>>)} |->
  LET portRaw == SliceFrom(rest1, i1 + 1)
      server == Slice(rest1, 0, i1)
  IN  Let([pn \in {ParseInt(Trim(asString(Str(portRaw))))} |->
  Let([port \in {IF isPort(pn) THEN pn ELSE Num(0)} |->
    IF s0 = <<>> THEN SsrMainEmpty(Append(warnings, Warn("ssr: main part is empty")))
    ELSE IF i5 < 0 \/ i4 < 0 \/ i3 < 0 \/ i2 < 0 \/ i1 < 0
    THEN SsrMainEmpty(Append(warnings, Warn("ssr: main part cannot be parsed")))
    ELSE [server |-> Trim(server), port |-> port, protocol |-> Trim(protocol),
          method |-> Trim(method), obfs |-> Trim(obfs), password |-> <<>>,
          passwordB64 |-> Trim(passwordB64),
          warnings |-> PushIf(warnings, ~Truthy(port), "ssr: illegal port")]])])])])])])])])])])

\* the record of the early returns of SSRParser.parse
SsrZeroed(extras, warnings) ==
  Obj(<< <<K_source, Str(S(<<"s", "s", "r">>))>>,
         <<K_type, Str(S(<<"s", "s", "r">>))>>,
         <<K_name, Str(S(<<"s", "s", "r">>))>>,
         <<K_server, Str(<<>>)>>,
         <<K_port, Num(0)>>,
         <<K_cipher, Str(<<>>)>>,
         <<K_password, Str(<<>>)>>,
         <<K_protocol, Str(<<>>)>>,
         <<K_obfs, Str(<<>>)>>,
         <<K_extras, Obj(extras)>>,
         <<K_warnings, Arr(warnings)>> >>)

\* s.replace(/\/+$/g, "")
RECURSIVE StripTrailingSlashes(_)
StripTrailingSlashes(s) ==
  IF s # <<>> /\ s[Len(s)] = CH_SLASH THEN StripTrailingSlashes(SubSeq(s, 1, Len(s) - 1)) ELSE s

\* b64 ? decodeBase64ToTextMaybe(b64, warnings, label).trim() : ""
DecodedParam(env, b64, warnings, label) ==
  Let([r \in {decodeBase64ToTextMaybe(env, b64, warnings, label)} |->
    IF Truthy(b64) THEN [text |-> Trim(r.text), warnings |-> r.warnings]
    ELSE [text |-> <<>>, warnings |-> warnings]])

SSRParser_parse(env, url) ==
  Let([rawUrl \in {Trim(asString(url))} |->
  Let([u \in {splitUrlLoosely(Str(rawUrl))} |->
  Let([w1 \in {PushIf(<<>>, lower(u.scheme) # <<>> /\ lower(u.scheme) # S(<<"s", "s", "r">>), "ssr: scheme is not ssr")},
        payloadRaw \in {Trim(safeDecodeURIComponent(
                          Str(asString(IF ~IsNullish(u.authority) THEN u.authority ELSE u.path))))},
        nameFromFrag \in {IF ~IsNullish(u.fragment) THEN Trim(safeDecodeURIComponent(u.fragment)) ELSE <<>>} |->
  Let([decoded \in {base64DecodeUtf8(env, Str(payloadRaw))} |->
  Let([decodedText \in {Trim(asString(decoded))} |->
  Let([idx \in {IndexOf(decodedText, <<CH_SLASH, CH_QM>>)},
        q2 \in {IndexOf(decodedText, <<CH_QM>>)} |->
  LET mainPart == IF idx >= 0 THEN Slice(decodedText, 0, idx)
                  ELSE IF q2 >= 0 THEN StripTrailingSlashes(Slice(decodedText, 0, q2))
                  ELSE StripTrailingSlashes(decodedText)
  IN  Let([queryPart \in {IF idx >= 0 THEN SliceFrom(decodedText, idx + 2)
                          ELSE IF q2 >= 0 THEN SliceFrom(decodedText, q2 + 1)
                          ELSE <<>>},
            mainParsed \in {parseSsrMain(Str(mainPart), w1)} |->
  LET queryObj == IF queryPart # <<>> THEN parseQueryNoPlus(Str(queryPart)) ELSE Obj(<<>>)
  IN  Let([server0 \in {Trim(safeDecodeURIComponent(Str(asString(Str(mainParsed.server)))))},
            port \in {Or(mainParsed.port, Num(0))},
            protocol \in {Trim(mainParsed.protocol)},
            method \in {Trim(mainParsed.method)},
            obfs \in {Trim(mainParsed.obfs)},
            pw \in {decodeBase64ToTextMaybe(env, Str(mainParsed.passwordB64), mainParsed.warnings,
                                            "ssr: password is not Base64")} |->
  Let([server \in {IF StartsWith(server0, <<CH_LBRACKET>>) /\ EndsWith(server0, <<CH_RBRACKET>>)
                   THEN SubSeq(server0, 2, Len(server0) - 1) ELSE server0},
        password \in {Trim(pw.text)} |->
  LET w2 == PushIf(pw.warnings, server = <<>>, "ssr: missing server")
      w3 == PushIf(w2, ~Truthy(port), "ssr: missing port")
      w4 == PushIf(w3, method = <<>>, "ssr: missing method")
      w5 == PushIf(w4, password = <<>>, "ssr: missing password")
      w6 == PushIf(w5, protocol = <<>>, "ssr: missing protocol")
      w7 == PushIf(w6, obfs = <<>>, "ssr: missing obfs")
  IN  Let([remarks \in {DecodedParam(env, getRawQueryFirstParam(Str(queryPart), S(<<"r", "e", "m", "a", "r", "k", "s">>)), w7,
                                     "ssr: remarks is not Base64")} |->
  LET name == IF nameFromFrag # <<>> THEN nameFromFrag
              ELSE IF remarks.text # <<>> THEN remarks.text
              ELSE IF server # <<>> THEN server
              ELSE S(<<"s", "s", "r">>)
  IN  Let([group \in {DecodedParam(env, getRawQueryFirstParam(Str(queryPart), S(<<"g", "r", "o", "u", "p">>)), remarks.warnings,
                                   "ssr: group is not Base64")} |->
  LET extras == Obj(<< <<S(<<"r", "e", "m", "a", "r", "k", "s">>), OrUndefined(Str(remarks.text))>>,
                       <<S(<<"g", "r", "o", "u", "p">>), OrUndefined(Str(group.text))>>,
                       <<K_query, queryObj>>,
                       <<K_rawUrl, Str(rawUrl)>>,
                       <<K_rawBase64, Str(payloadRaw)>>,
                       <<S(<<"r", "a", "w", "D", "e", "c", "o", "d", "e", "d", "T", "e", "x", "t">>), Str(decodedText)>>,
                       <<S(<<"r", "a", "w", "I", "n", "n", "e", "r", "Q", "u", "e", "r", "y">>), OrUndefined(Str(queryPart))>> >>)
  IN  Let([protocolParam \in {DecodedParam(env, getRawQueryFirstParam(Str(queryPart), S(<<"p", "r", "o", "t", "o", "p", "a", "r", "a", "m">>)),
                                           group.warnings, "ssr: protoparam is not Base64")} |->
  Let([obfsParam \in {DecodedParam(env, getRawQueryFirstParam(Str(queryPart), S(<<"o", "b", "f", "s", "p", "a", "r", "a", "m">>)),
                                   protocolParam.warnings, "ssr: obfsparam is not Base64")} |->
    IF rawUrl = <<>>
    THEN SsrZeroed(<< <<K_rawUrl, Str(<<>>)>> >>, <<Warn("ssr: empty input")>>)
    ELSE IF payloadRaw = <<>>
    THEN SsrZeroed(<< <<K_rawUrl, Str(rawUrl)>>, <<K_rawBase64, Str(<<>>)>> >>,
                   Append(w1, Warn("ssr: empty payload")))
    ELSE IF IsNullish(decoded)
    THEN SsrZeroed(<< <<K_rawUrl, Str(rawUrl)>>, <<K_rawBase64, Str(payloadRaw)>> >>,
                   Append(w1, Warn("ssr: Base64 decoding failed")))
    ELSE IF decodedText = <<>>
    THEN SsrZeroed(<< <<K_rawUrl, Str(rawUrl)>>, <<K_rawBase64, Str(payloadRaw)>>,
                      <<S(<<"r", "a", "w", "D", "e", "c", "o", "d", "e", "d", "T", "e", "x", "t">>), Str(<<>>)>> >>,
                   Append(w1, Warn("ssr: decoded payload is empty")))
    ELSE Obj(<< <<K_source, Str(S(<<"s", "s", "r">>))>>,
                <<K_type, Str(S(<<"s", "s", "r">>))>>,
                <<K_name, Str(name)>>,
                <<K_server, Str(server)>>,
                <<K_port, port>>,
                <<K_cipher, Str(method)>>,
                <<K_password, Str(password)>>,
                <<K_protocol, Str(protocol)>>,
                <<S(<<"p", "r", "o", "t", "o", "c", "o", "l", "P", "a", "r", "a", "m">>), OrUndefined(Str(protocolParam.text))>>,
                <<K_obfs, Str(obfs)>>,
                <<S(<<"o", "b", "f", "s", "P", "a", "r", "a", "m">>), OrUndefined(Str(obfsParam.text))>>,
                <<K_extras, extras>>,
                <<K_warnings, Arr(obfsParam.warnings)>> >>)])])])])])])])])])])])])])

(***************************************************************************)
(* parsers/hysteria-parser.js                                              *)
(***************************************************************************)
tryParseJsonObject(text) ==
  Let([s \in {Trim(asString(text))} |->
  Let([parsed \in {JSON_parse(s)} |->
    IF s = <<>> THEN Null
    ELSE IF ~(StartsWith(s, <<CH_LBRACE>>) /\ EndsWith(s, <<CH_RBRACE>>)) THEN Null
    ELSE IF parsed.ok /\ parsed.v.t = "object" THEN parsed.v
    ELSE Null])])

HysteriaParser_parse(url) ==
  Let([rawUrl \in {Trim(asString(url))} |->
  Let([u \in {splitUrlLoosely(Str(rawUrl))} |->
  LET w1 == PushIf(<<>>, lower(u.scheme) # <<>> /\ lower(u.scheme) # S(<<"h", "y", "s", "t", "e", "r", "i", "a">>),
                   "hysteria: scheme is not hysteria")
      authorityText == IF ~IsNullish(u.authority) THEN asString(u.authority) ELSE asString(u.path)
  IN  Let([nameFromFrag \in {IF ~IsNullish(u.fragment) THEN Trim(safeDecodeURIComponent(u.fragment)) ELSE <<>>},
            queryObj \in {parseQuery(u.query)},
            a \in {parseAuthority(Str(authorityText))} |->
  LET authFromUserinfo == Trim(safeDecodeURIComponent(Str(asString(a.userinfo))))
      sni == TrimOrNull(FirstOf3(queryObj, K_sni, S(<<"p", "e", "e", "r">>), S(<<"s", "e", "r", "v", "e", "r", "n", "a", "m", "e">>)))
      allowInsecure == parseBooleanish(FirstOf3(queryObj, S(<<"a", "l", "l", "o", "w", "I", "n", "s", "e", "c", "u", "r", "e">>), K_insecure,
                                                S(<<"s", "k", "i", "p", "-", "c", "e", "r", "t", "-", "v", "e", "r", "i", "f", "y">>)))
      obfs == Trim(asString(getFirstParam(queryObj, K_obfs)))
      recvWindowConn0 == parsePositiveInt(FirstOf3(queryObj, S(<<"r", "e", "c", "v", "-", "w", "i", "n", "d", "o", "w", "-", "c", "o", "n", "n">>), K_recvWindowConn,
                                                   S(<<"r", "e", "c", "v", "_", "w", "i", "n", "d", "o", "w", "_", "c", "o", "n", "n">>)))
      recvWindow0 == parsePositiveInt(FirstOf3(queryObj, S(<<"r", "e", "c", "v", "-", "w", "i", "n", "d", "o", "w">>), K_recvWindow,
                                               S(<<"r", "e", "c", "v", "_", "w", "i", "n", "d", "o", "w">>)))
      disableMtuDiscovery == parseBooleanish(FirstOf3(queryObj, S(<<"d", "i", "s", "a", "b", "l", "e", "-", "m", "t", "u", "-", "d", "i", "s", "c", "o", "v", "e", "r", "y">>),
                                S(<<"d", "i", "s", "a", "b", "l", "e", "M", "t", "u", "D", "i", "s", "c", "o", "v", "e", "r", "y">>), S(<<"d", "i", "s", "a", "b", "l", "e", "_", "m", "t", "u", "_", "d", "i", "s", "c", "o", "v", "e", "r", "y">>)))
      fastOpen == parseBooleanish(FirstOf3(queryObj, S(<<"f", "a", "s", "t", "-", "o", "p", "e", "n">>), K_fastOpen, S(<<"f", "a", "s", "t", "o", "p", "e", "n">>)))
      smuxEnabled == parseBooleanish(getFirstParam(queryObj, K_smux))
      extras == Obj(<< <<K_query, queryObj>>, <<K_rawUrl, Str(rawUrl)>> >>)
  IN  Let([server \in {Trim(safeDecodeURIComponent(Str(asString(a.host))))},
            portNum \in {IF isPort(a.port) THEN a.port ELSE Num(0)},
            authFromQuery \in {Trim(asString(FirstOf3(queryObj, S(<<"a", "u", "t", "h", "-", "s", "t", "r">>), S(<<"a", "u", "t", "h", "_", "s", "t", "r">>), S(<<"a", "u", "t", "h">>))))},
            alpn \in {Hysteria2_parseAlpn(getFirstParam(queryObj, K_alpn))} |->
  LET w2 == PushIf(w1, server = <<>>, "hysteria: missing server")
      tls == Obj(<< <<K_enabled, Bool(TRUE)>>,
                    <<K_security, Str(S(<<"t", "l", "s">>))>>,
                    <<K_sni, Or(sni, Null)>>,
                    <<K_alpn, IF alpn.v # <<>> THEN alpn ELSE Undefined>>,
                    <<K_insecure, IF allowInsecure THEN Bool(TRUE) ELSE Undefined>> >>)
      name == IF nameFromFrag # <<>> THEN nameFromFrag
              ELSE IF server # <<>> THEN server
              ELSE S(<<"h", "y", "s", "t", "e", "r", "i", "a">>)
  IN  Let([w3 \in {PushIf(w2, ~Truthy(portNum), "hysteria: illegal port")},
            authRaw \in {IF authFromQuery # <<>> THEN authFromQuery ELSE authFromUserinfo} |->
  Let([maybeObj \in {tryParseJsonObject(Str(authRaw))} |->
  LET authStr == IF authRaw # <<>> /\ ~Truthy(maybeObj) THEN authRaw ELSE <<>>
      authObj == IF authRaw # <<>> /\ Truthy(maybeObj) THEN maybeObj ELSE Undefined
      w4 == IF authRaw = <<>> THEN Append(w3, Warn("hysteria: missing auth"))
            ELSE PushIf(w3, Truthy(maybeObj), "hysteria: auth is a JSON object")
  IN  IF rawUrl = <<>>
      THEN ZeroedNode(S(<<"h", "y", "s", "t", "e", "r", "i", "a">>), <<>>, <<>>, <<Warn("hysteria: empty input")>>)
      ELSE Obj(<< <<K_source, Str(S(<<"h", "y", "s", "t", "e", "r", "i", "a">>))>>,
                  <<K_type, Str(S(<<"h", "y", "s", "t", "e", "r", "i", "a">>))>>,
                  <<K_name, Str(name)>>,
                  <<K_server, Str(server)>>,
                  <<K_port, portNum>>,
                  <<K_tls, tls>>,
                  <<S(<<"a", "u", "t", "h", "S", "t", "r">>), OrUndefined(Str(authStr))>>,
                  <<S(<<"a", "u", "t", "h">>), authObj>>,
                  <<K_obfs, OrUndefined(Str(obfs))>>,
                  <<K_recvWindowConn, FiniteOrUndefined(recvWindowConn0)>>,
                  <<K_recvWindow, FiniteOrUndefined(recvWindow0)>>,
                  <<S(<<"d", "i", "s", "a", "b", "l", "e", "M", "t", "u", "D", "i", "s", "c", "o", "v", "e", "r", "y">>), IF disableMtuDiscovery THEN Bool(TRUE) ELSE Undefined>>,
                  <<K_fastOpen, IF fastOpen THEN Bool(TRUE) ELSE Undefined>>,
                  <<K_smux, IF smuxEnabled THEN Obj(<< <<K_enabled, Bool(TRUE)>> >>) ELSE Undefined>>,
                  <<K_extras, extras>>,
                  <<K_warnings, Arr(w4)>> >>)])])])])])])

(***************************************************************************)
(* Built-ins: Number(v)                                                    *)
(***************************************************************************)
Infinity(neg) == [t |-> "number", k |-> "inf", v |-> 0, neg |-> neg]

\* s is empty or made of decimal digits
DigitsOrEmpty(s) == \A i \in 1..Len(s) : IsDigit(s[i])

\* 0-based index of the first e or E of s, or -1
ExponentMark(s) ==
  IF \E i \in 1..Len(s) : s[i] \in {69, 101}
  THEN (CHOOSE i \in 1..Len(s) : s[i] \in {69, 101} /\ \A j \in 1..(i - 1) : s[j] \notin {69, 101}) - 1
  ELSE -1

\* StrUnsignedDecimalLiteral: digits, optional fraction, optional exponent
UnsignedDecimal(s) ==
  Let([ePos \in {ExponentMark(s)} |->
  Let([mant \in {IF ePos >= 0 THEN Slice(s, 0, ePos) ELSE s},
        expo \in {IF ePos >= 0 THEN SliceFrom(s, ePos + 1) ELSE <<>>} |->
  Let([dot \in {IndexOf(mant, <<CH_DOT>>)},
        expSigned \in {expo # <<>> /\ Head(expo) \in {CH_PLUS, CH_MINUS}} |->
  LET expDigits == IF expSigned THEN Tail(expo) ELSE expo
  IN  Let([int \in {IF dot >= 0 THEN Slice(mant, 0, dot) ELSE mant},
            frac \in {IF dot >= 0 THEN SliceFrom(mant, dot + 1) ELSE <<>>} |->
  Let([ok \in {/\ int # <<>> \/ frac # <<>>
               /\ DigitsOrEmpty(int) /\ DigitsOrEmpty(frac)
               /\ ePos < 0 \/ AllDigits(expDigits)} |->
    [ok |-> ok, int |-> int, frac |-> frac,
     exponent |-> IF ok /\ ePos >= 0
                  THEN (IF expSigned /\ Head(expo) = CH_MINUS THEN -1 ELSE 1) * DigitsValue(expDigits)
                  ELSE 0]])])])])])

\* value of the digit string d in the given radix
RECURSIVE RadixValue(_, _)
RadixValue(d, radix) ==
  IF d = <<>> THEN 0 ELSE radix * RadixValue(SubSeq(d, 1, Len(d) - 1), radix) + HexVal(d[Len(d)])

\* the radix a 0x / 0o / 0b prefix announces, or 0
RadixOf(s) ==
  IF Len(s) >= 2 /\ s[1] = 48
  THEN (IF s[2] \in {88, 120} THEN 16 ELSE IF s[2] \in {79, 111} THEN 8 ELSE IF s[2] \in {66, 98} THEN 2 ELSE 0)
  ELSE 0

\* StringToNumber(s)
StringToNumber(s) ==
  Let([t \in {Trim(s)} |->
  LET digits == SliceFrom(t, 2)
  IN  Let([signed \in {t # <<>> /\ Head(t) \in {CH_PLUS, CH_MINUS}},
            radix \in {RadixOf(t)} |->
  LET neg == signed /\ Head(t) = CH_MINUS
      body == IF signed THEN Tail(t) ELSE t
  IN  Let([d \in {UnsignedDecimal(body)} |->
    IF t = <<>> THEN Num(0)
    ELSE IF body = S(<<"I", "n", "f", "i", "n", "i", "t", "y">>) THEN Infinity(neg)
    ELSE IF radix > 0
         THEN (IF digits # <<>> /\ \A i \in 1..Len(digits) : IsHex(digits[i]) /\ HexVal(digits[i]) < radix
               THEN Num(RadixValue(digits, radix)) ELSE NaN)
    ELSE IF d.ok THEN DecimalValue(neg, d.int, d.frac, d.exponent)
    ELSE NaN])])])

\* Number(x), for an x that Number does not throw on
ToNumber(x) ==
  CASE x.t = "undefined" -> NaN
    [] x.t = "null" -> Num(0)
    [] x.t = "boolean" -> Num(IF x.v THEN 1 ELSE 0)
    [] x.t = "number" -> x
    [] x.t = "string" -> StringToNumber(x.v)
    [] x.t = "array" -> StringToNumber(ToStr(x))
    [] OTHER -> NaN

\* Number(x) throws a TypeError: ToPrimitive finds no callable toString
NumberThrows(x) == StringThrows(x)

\* Number.isFinite(n) && n > 0
FinitePositive(n) ==
  n.t = "number" /\ ((n.k = "int" /\ n.v > 0) \/ (n.k = "frac" /\ ~n.neg))

(***************************************************************************)
(* Helpers every converter file repeats                                    *)
(***************************************************************************)
\* an own property of a record; undefined for anything that is not one
pick(obj, key) == IF obj.t = "object" THEN Get(obj, key) ELSE Undefined

isPlainObject(v) == v.t = "object"

\* x === true
IsTrue(x) == x.t = "boolean" /\ x.v

\* asString(pick(obj, key)).trim()
Field(obj, key) == Trim(asString(pick(obj, key)))

\* pick(obj, key) || {}
Sub(obj, key) == Or(pick(obj, key), Obj(<<>>))

\* Number(pick(obj, key)) || 0
NumberOrZero(obj, key) == Or(ToNumber(pick(obj, key)), Num(0))

\* if (s) out[key] = s
StrEntry(key, s) == EntryIf(s # <<>>, key, Str(s))

\* if (Array.isArray(alpn) && alpn.length) out.alpn = alpn.map(asString).filter(Boolean)
AlpnEntry(tls) ==
  Let([alpn \in {pick(tls, K_alpn)} |->
    IF alpn.t = "array" /\ alpn.v # <<>>
    THEN << <<K_alpn, Arr(SelectSeq([i \in 1..Len(alpn.v) |-> Str(asString(alpn.v[i]))],
                                    LAMBDA e : e.v # <<>>))>> >>
    ELSE <<>>])

\* if (Boolean(pick(tls, "insecure"))) out["skip-cert-verify"] = true
InsecureEntry(tls) == EntryIf(Truthy(pick(tls, K_insecure)), S(<<"s", "k", "i", "p", "-", "c", "e", "r", "t", "-", "v", "e", "r", "i", "f", "y">>), Bool(TRUE))

\* if (Number.isFinite(n) && n > 0) out[outKey] = n, with n = Number(pick(node, key))
PositiveEntry(node, key, outKey) ==
  EntryIf(FinitePositive(ToNumber(pick(node, key))), outKey, ToNumber(pick(node, key)))

\* if (pick(node, key) === true) out[outKey] = true
TrueEntry(node, key, outKey) == EntryIf(IsTrue(pick(node, key)), outKey, Bool(TRUE))

\* if (isPlainObject(smux) && Object.keys(smux).length) out.smux = smux
SmuxEntry(node) ==
  Let([smux \in {pick(node, K_smux)} |->
    EntryIf(isPlainObject(smux) /\ smux.v # <<>>, K_smux, smux)])

\* if (network && network !== "tcp") out.network = network
NetworkEntry(network) == EntryIf(network # <<>> /\ network # S(<<"t", "c", "p">>), K_network, Str(network))

\* out[key] = opts unless opts has no keys
OptsEntry(key, entries) == EntryIf(entries # <<>>, key, Obj(entries))

\* the ws-opts / http-opts body: { path, headers: { Host } }
PathHeaders(sub) ==
  StrEntry(K_path, Field(sub, K_path))
  \o EntryIf(Field(sub, K_host) # <<>>, S(<<"h", "e", "a", "d", "e", "r", "s">>),
             Obj(<< <<S(<<"H", "o", "s", "t">>), Str(Field(sub, K_host))>> >>))

\* the grpc-opts body
GrpcServiceMode(grpc) ==
  StrEntry(S(<<"g", "r", "p", "c", "-", "s", "e", "r", "v", "i", "c", "e", "-", "n", "a", "m", "e">>), Field(grpc, S(<<"s", "e", "r", "v", "i", "c", "e", "N", "a", "m", "e">>)))
  \o StrEntry(S(<<"m", "o", "d", "e">>), Field(grpc, S(<<"m", "o", "d", "e">>)))

\* the transport options of the ws / grpc branches
WsGrpcEntries(transport, network) ==
  IF network = S(<<"w", "s">>) THEN OptsEntry(S(<<"w", "s", "-", "o", "p", "t", "s">>), PathHeaders(Sub(transport, K_ws)))
  ELSE IF network = S(<<"g", "r", "p", "c">>) THEN OptsEntry(S(<<"g", "r", "p", "c", "-", "o", "p", "t", "s">>), GrpcServiceMode(Sub(transport, K_grpc)))
  ELSE <<>>

\* the name, type, server and port every converter starts its output with
Head4(node, proto) ==
  << <<K_name, Or(Str(Field(node, K_name)), Str(proto))>>,
     <<K_type, Str(proto)>>,
     <<K_server, Str(Field(node, K_server))>>,
     <<K_port, NumberOrZero(node, K_port)>> >>

\* a catch block that returns no name (a variant no converter uses:
\* ConvertersTotal fails under it)
SkeletonUnnamed(proto, rest) ==
  Obj(<< <<K_type, Str(proto)>>, <<K_server, Str(<<>>)>>, <<K_port, Num(0)>> >> \o rest)

\* the record a converter's catch block returns
Skeleton(proto, rest) ==
  Obj(<< <<K_name, Str(proto)>>, <<K_type, Str(proto)>>, <<K_server, Str(<<>>)>>,
         <<K_port, Num(0)>> >> \o rest)

K_udp == S(<<"u", "d", "p">>)

(***************************************************************************)
(* converters/vless-converter.js                                           *)
(***************************************************************************)
VLESSConverter_convert(node) ==
  LET extras == Sub(node, K_extras)
  IN  Let([tls \in {Sub(node, K_tls)},
            transport \in {Sub(node, K_transport)} |->
  LET tlsEnabled == Truthy(pick(tls, K_enabled)) \/ Field(tls, K_security) = S(<<"r", "e", "a", "l", "i", "t", "y">>)
  IN  Let([reality \in {Sub(tls, K_reality)},
            network \in {Field(transport, K_network)} |->
  Let([pbk \in {Field(reality, K_pbk)},
        sid \in {Field(reality, K_sid)} |->
    IF NumberThrows(pick(node, K_port))
    THEN Skeleton(S(<<"v", "l", "e", "s", "s">>), << <<K_uuid, Str(<<>>)>>, <<K_udp, Bool(TRUE)>>, <<K_tls, Bool(FALSE)>> >>)
    ELSE Obj(Head4(node, S(<<"v", "l", "e", "s", "s">>))
             \o << <<K_uuid, Str(Field(node, K_uuid))>>, <<K_udp, Bool(TRUE)>> >>
             \o StrEntry(K_flow, Field(extras, K_flow))
             \o << <<K_tls, Bool(tlsEnabled \/ pbk # <<>> \/ sid # <<>>)>> >>
             \o StrEntry(K_sni, Field(tls, K_sni))
             \o AlpnEntry(tls)
             \o StrEntry(K_fingerprint, Field(tls, K_fingerprint))
             \o StrEntry(S(<<"c", "l", "i", "e", "n", "t", "-", "f", "i", "n", "g", "e", "r", "p", "r", "i", "n", "t">>), Field(tls, S(<<"c", "l", "i", "e", "n", "t", "F", "i", "n", "g", "e", "r", "p", "r", "i", "n", "t">>)))
             \o InsecureEntry(tls)
             \o EntryIf(pbk # <<>> \/ sid # <<>>, S(<<"r", "e", "a", "l", "i", "t", "y", "-", "o", "p", "t", "s">>),
                        Obj(StrEntry(S(<<"p", "u", "b", "l", "i", "c", "-", "k", "e", "y">>), pbk) \o StrEntry(S(<<"s", "h", "o", "r", "t", "-", "i", "d">>), sid)))
             \o NetworkEntry(network)
             \o (IF network = S(<<"h", "t", "t", "p">>) THEN OptsEntry(S(<<"h", "t", "t", "p", "-", "o", "p", "t", "s">>), PathHeaders(Sub(transport, K_http)))
                 ELSE WsGrpcEntries(transport, network)))])])])

(***************************************************************************)
(* converters/vmess-converter.js                                           *)
(***************************************************************************)
\* hostRaw.split(",").map(trim).filter(Boolean), or [] for an empty hostRaw
H2Hosts(hostRaw) == IF hostRaw = <<>> THEN Arr(<<>>) ELSE TrimmedNonEmpty(SplitOn(hostRaw, {CH_COMMA}))

H2Opts(h2) ==
  StrEntry(K_path, Field(h2, K_path))
  \o EntryIf(H2Hosts(Field(h2, K_host)).v # <<>>, K_host, H2Hosts(Field(h2, K_host)))

VMessConverter_convert(node) ==
  Let([alterId0 \in {ToNumber(pick(node, K_alterId))},
        tls \in {Sub(node, K_tls)},
        transport \in {Sub(node, K_transport)} |->
  Let([network \in {Field(transport, K_network)} |->
    IF NumberThrows(pick(node, K_port)) \/ NumberThrows(pick(node, K_alterId))
    THEN Skeleton(S(<<"v", "m", "e", "s", "s">>), << <<K_uuid, Str(<<>>)>>, <<K_alterId, Num(0)>>,
                                <<K_cipher, Str(S(<<"a", "u", "t", "o">>))>>, <<K_udp, Bool(TRUE)>>,
                                <<K_tls, Bool(FALSE)>> >>)
    ELSE Obj(Head4(node, S(<<"v", "m", "e", "s", "s">>))
             \o << <<K_uuid, Str(Field(node, K_uuid))>>,
                   <<K_alterId, IF IsInteger(alterId0) /\ alterId0.v >= 0 THEN alterId0 ELSE Num(0)>>,
                   <<K_cipher, Or(Str(Field(node, K_cipher)), Str(S(<<"a", "u", "t", "o">>)))>>,
                   <<K_udp, Bool(TRUE)>>,
                   <<K_tls, Bool(Truthy(pick(tls, K_enabled)))>> >>
             \o StrEntry(K_sni, Field(tls, K_sni))
             \o AlpnEntry(tls)
             \o NetworkEntry(network)
             \o (IF network = S(<<"h", "t", "t", "p">>) THEN OptsEntry(S(<<"h", "t", "t", "p", "-", "o", "p", "t", "s">>), PathHeaders(Sub(transport, K_http)))
                 ELSE IF network = S(<<"h", "2">>) THEN OptsEntry(S(<<"h", "2", "-", "o", "p", "t", "s">>), H2Opts(Sub(transport, K_h2)))
                 ELSE WsGrpcEntries(transport, network)))])])

(***************************************************************************)
(* converters/ss-converter.js                                              *)
(***************************************************************************)
normalizePluginName(raw) ==
  Let([p \in {Trim(asString(raw))} |->
  Let([pl \in {ToLowerCase(p)} |->
    IF p = <<>> THEN <<>>
    ELSE IF pl \in {S(<<"o", "b", "f", "s", "-", "l", "o", "c", "a", "l">>), S(<<"s", "i", "m", "p", "l", "e", "-", "o", "b", "f", "s">>), S(<<"o", "b", "f", "s">>)} THEN S(<<"o", "b", "f", "s">>)
    ELSE IF pl = S(<<"v", "2", "r", "a", "y", "-", "p", "l", "u", "g", "i", "n">>) THEN S(<<"v", "2", "r", "a", "y", "-", "p", "l", "u", "g", "i", "n">>)
    ELSE p])])

\* the plugin-opts object, or null
buildPluginOpts(plugin, pluginOptsRaw) ==
  LET opts == pluginOptsRaw
  IN  Let([p \in {normalizePluginName(plugin)},
            obfsOut \in {StrEntry(S(<<"m", "o", "d", "e">>), Trim(asString(Coalesce(pick(opts, S(<<"o", "b", "f", "s">>)), pick(opts, S(<<"m", "o", "d", "e">>))))))
                         \o StrEntry(K_host, Trim(asString(Coalesce(pick(opts, S(<<"o", "b", "f", "s", "-", "h", "o", "s", "t">>)), pick(opts, K_host)))))},
            tlsRaw \in {pick(opts, K_tls)} |->
  Let([v2rayOut \in {StrEntry(S(<<"m", "o", "d", "e">>), Field(opts, S(<<"m", "o", "d", "e">>)))
                     \o EntryIf(IsTrue(tlsRaw) \/ parseBooleanish(tlsRaw), K_tls, Bool(TRUE))
                     \o StrEntry(K_host, Field(opts, K_host))
                     \o StrEntry(K_path, Field(opts, K_path))} |->
    IF p = <<>> \/ ~isPlainObject(pluginOptsRaw) THEN Null
    ELSE IF p = S(<<"o", "b", "f", "s">>) THEN (IF obfsOut # <<>> THEN Obj(obfsOut) ELSE Null)
    ELSE IF p = S(<<"v", "2", "r", "a", "y", "-", "p", "l", "u", "g", "i", "n">>) THEN (IF v2rayOut # <<>> THEN Obj(v2rayOut) ELSE Null)
    ELSE opts])])

SSConverter_convert(node) ==
  LET creds == << <<K_cipher, Str(Trim(asString(Coalesce(pick(node, K_cipher), pick(node, S(<<"m", "e", "t", "h", "o", "d">>))))))>>,
                  <<K_password, Str(Field(node, K_password))>>,
                  <<K_udp, Bool(TRUE)>> >>
  IN  Let([pluginRaw \in {Field(node, K_plugin)} |->
  Let([plugin \in {normalizePluginName(Str(pluginRaw))},
        pluginOpts \in {buildPluginOpts(Str(pluginRaw), pick(node, K_pluginOpts))} |->
    IF NumberThrows(pick(node, K_port))
    THEN Skeleton(S(<<"s", "s">>), << <<K_cipher, Str(<<>>)>>, <<K_password, Str(<<>>)>>, <<K_udp, Bool(TRUE)>> >>)
    ELSE Obj(Head4(node, S(<<"s", "s">>))
             \o creds
             \o StrEntry(K_plugin, plugin)
             \o EntryIf(plugin # <<>> /\ pluginOpts.t = "object" /\ pluginOpts.v # <<>>,
                        S(<<"p", "l", "u", "g", "i", "n", "-", "o", "p", "t", "s">>), pluginOpts))])])

(***************************************************************************)
(* converters/trojan-converter.js                                          *)
(***************************************************************************)
TrojanConverter_convert(node) ==
  Let([tls \in {Sub(node, K_tls)},
        transport \in {Sub(node, K_transport)} |->
  Let([network \in {Field(transport, K_network)} |->
    IF NumberThrows(pick(node, K_port))
    THEN Skeleton(S(<<"t", "r", "o", "j", "a", "n">>), << <<K_password, Str(<<>>)>>, <<K_udp, Bool(TRUE)>>, <<K_tls, Bool(FALSE)>> >>)
    ELSE Obj(Head4(node, S(<<"t", "r", "o", "j", "a", "n">>))
             \o << <<K_password, Str(Field(node, K_password))>>,
                   <<K_udp, Bool(TRUE)>>,
                   <<K_tls, Bool(Truthy(pick(tls, K_enabled)))>> >>
             \o StrEntry(K_sni, Field(tls, K_sni))
             \o AlpnEntry(tls)
             \o InsecureEntry(tls)
             \o NetworkEntry(network)
             \o WsGrpcEntries(transport, network)
             \o SmuxEntry(node))])])

(***************************************************************************)
(* converters/hysteria2-converter.js                                       *)
(***************************************************************************)
Hysteria2Converter_convert(node) ==
  Let([tls \in {Sub(node, K_tls)} |->
    IF \E k \in {K_port, K_recvWindowConn, K_recvWindow, K_maxConn} : NumberThrows(pick(node, k))
    THEN Skeleton(S(<<"h", "y", "s", "t", "e", "r", "i", "a", "2">>), << <<K_password, Str(<<>>)>>, <<K_udp, Bool(TRUE)>> >>)
    ELSE Obj(Head4(node, S(<<"h", "y", "s", "t", "e", "r", "i", "a", "2">>))
             \o << <<K_password, Str(Field(node, K_password))>>, <<K_udp, Bool(TRUE)>> >>
             \o StrEntry(K_sni, Field(tls, K_sni))
             \o AlpnEntry(tls)
             \o InsecureEntry(tls)
             \o StrEntry(K_obfs, Field(node, K_obfs))
             \o StrEntry(S(<<"o", "b", "f", "s", "-", "p", "a", "s", "s", "w", "o", "r", "d">>), Field(node, K_obfsPassword))
             \o TrueEntry(node, K_fastOpen, S(<<"f", "a", "s", "t", "-", "o", "p", "e", "n">>))
             \o PositiveEntry(node, K_recvWindowConn, S(<<"r", "e", "c", "v", "-", "w", "i", "n", "d", "o", "w", "-", "c", "o", "n", "n">>))
             \o PositiveEntry(node, K_recvWindow, S(<<"r", "e", "c", "v", "-", "w", "i", "n", "d", "o", "w">>))
             \o PositiveEntry(node, K_maxConn, S(<<"m", "a", "x", "-", "c", "o", "n", "n">>))
             \o SmuxEntry(node))])

(***************************************************************************)
(* converters/ssr-converter.js                                             *)
(***************************************************************************)
SSRConverter_convert(node) ==
  IF NumberThrows(pick(node, K_port))
  THEN Skeleton(S(<<"s", "s", "r">>), << <<K_cipher, Str(<<>>)>>, <<K_password, Str(<<>>)>>,
                            <<K_protocol, Str(<<>>)>>, <<K_obfs, Str(<<>>)>>, <<K_udp, Bool(TRUE)>> >>)
  ELSE Obj(Head4(node, S(<<"s", "s", "r">>))
           \o << <<K_cipher, Str(Trim(asString(Coalesce(pick(node, K_cipher), pick(node, S(<<"m", "e", "t", "h", "o", "d">>))))))>>,
                 <<K_password, Str(Field(node, K_password))>>,
                 <<K_protocol, Str(Field(node, K_protocol))>>,
                 <<K_obfs, Str(Field(node, K_obfs))>>,
                 <<K_udp, Bool(TRUE)>> >>
           \o StrEntry(S(<<"p", "r", "o", "t", "o", "c", "o", "l", "-", "p", "a", "r", "a", "m">>), Field(node, S(<<"p", "r", "o", "t", "o", "c", "o", "l", "P", "a", "r", "a", "m">>)))
           \o StrEntry(S(<<"o", "b", "f", "s", "-", "p", "a", "r", "a", "m">>), Field(node, S(<<"o", "b", "f", "s", "P", "a", "r", "a", "m">>))))

(***************************************************************************)
(* converters/hysteria-converter.js                                        *)
(***************************************************************************)
HysteriaConverter_convert(node) ==
  LET authStr == Field(node, S(<<"a", "u", "t", "h", "S", "t", "r">>))
  IN  Let([tls \in {Sub(node, K_tls)},
            auth \in {pick(node, S(<<"a", "u", "t", "h">>))} |->
    IF \E k \in {K_port, K_recvWindowConn, K_recvWindow} : NumberThrows(pick(node, k))
    THEN Skeleton(S(<<"h", "y", "s", "t", "e", "r", "i", "a">>), << <<K_udp, Bool(TRUE)>> >>)
    ELSE Obj(Head4(node, S(<<"h", "y", "s", "t", "e", "r", "i", "a">>))
             \o << <<K_udp, Bool(TRUE)>> >>
             \o (IF isPlainObject(auth) /\ auth.v # <<>> THEN << <<S(<<"a", "u", "t", "h">>), auth>> >>
                 ELSE StrEntry(S(<<"a", "u", "t", "h", "-", "s", "t", "r">>), authStr))
             \o StrEntry(K_sni, Field(tls, K_sni))
             \o AlpnEntry(tls)
             \o InsecureEntry(tls)
             \o StrEntry(K_obfs, Field(node, K_obfs))
             \o PositiveEntry(node, K_recvWindowConn, S(<<"r", "e", "c", "v", "-", "w", "i", "n", "d", "o", "w", "-", "c", "o", "n", "n">>))
             \o PositiveEntry(node, K_recvWindow, S(<<"r", "e", "c", "v", "-", "w", "i", "n", "d", "o", "w">>))
             \o TrueEntry(node, S(<<"d", "i", "s", "a", "b", "l", "e", "M", "t", "u", "D", "i", "s", "c", "o", "v", "e", "r", "y">>), S(<<"d", "i", "s", "a", "b", "l", "e", "-", "m", "t", "u", "-", "d", "i", "s", "c", "o", "v", "e", "r", "y">>))
             \o TrueEntry(node, K_fastOpen, S(<<"f", "a", "s", "t", "-", "o", "p", "e", "n">>))
             \o SmuxEntry(node))])

(***************************************************************************)
(* converters/tuic-converter.js                                            *)
(***************************************************************************)
TUICConverter_convert(node) ==
  Let([tls \in {Sub(node, K_tls)} |->
    IF \E k \in {K_port, K_requestTimeout, K_maxUdpRelayPacketSize} : NumberThrows(pick(node, k))
    THEN Skeleton(S(<<"t", "u", "i", "c">>), << <<K_uuid, Str(<<>>)>>, <<K_password, Str(<<>>)>>, <<K_udp, Bool(TRUE)>> >>)
    ELSE Obj(Head4(node, S(<<"t", "u", "i", "c">>))
             \o << <<K_uuid, Str(Field(node, K_uuid))>>,
                   <<K_password, Str(Field(node, K_password))>>,
                   <<K_udp, Bool(TRUE)>> >>
             \o StrEntry(K_sni, Field(tls, K_sni))
             \o AlpnEntry(tls)
             \o InsecureEntry(tls)
             \o StrEntry(S(<<"c", "o", "n", "g", "e", "s", "t", "i", "o", "n", "-", "c", "o", "n", "t", "r", "o", "l", "l", "e", "r">>), Field(node, K_congestionController))
             \o TrueEntry(node, K_reduceRtt, S(<<"r", "e", "d", "u", "c", "e", "-", "r", "t", "t">>))
             \o PositiveEntry(node, K_requestTimeout, S(<<"r", "e", "q", "u", "e", "s", "t", "-", "t", "i", "m", "e", "o", "u", "t">>))
             \o PositiveEntry(node, K_maxUdpRelayPacketSize, S(<<"m", "a", "x", "-", "u", "d", "p", "-", "r", "e", "l", "a", "y", "-", "p", "a", "c", "k", "e", "t", "-", "s", "i", "z", "e">>)))])

(***************************************************************************)
(* index.js: the dispatcher                                                *)
(***************************************************************************)
P_vless == S(<<"v", "l", "e", "s", "s">>)
P_vmess == S(<<"v", "m", "e", "s", "s">>)
P_ss == S(<<"s", "s">>)
P_trojan == S(<<"t", "r", "o", "j", "a", "n">>)
P_hysteria2 == S(<<"h", "y", "s", "t", "e", "r", "i", "a", "2">>)
P_ssr == S(<<"s", "s", "r">>)
P_hysteria == S(<<"h", "y", "s", "t", "e", "r", "i", "a">>)
P_tuic == S(<<"t", "u", "i", "c">>)

\* the own keys of the alias table, with their values
PROTOCOL_ALIASES == << <<S(<<"h", "y", "2">>), P_hysteria2>>, <<S(<<"s", "h", "a", "d", "o", "w", "s", "o", "c", "k", "s">>), P_ss>> >>

\* the own keys of parserMap and of converterMap
parserMap == {P_vless, P_vmess, P_ss, P_trojan, P_hysteria2, P_ssr, P_hysteria, P_tuic}
converterMap == {P_vless, P_vmess, P_ss, P_trojan, P_hysteria2, P_ssr, P_hysteria, P_tuic}

\* a built-in function, as the text String() gives for it
Function(name) == [t |-> "function", v |-> S(<<"f", "u", "n", "c", "t", "i", "o", "n", " ">>) \o name \o S(<<"(", ")", " ", "{", " ", "[", "n", "a", "t", "i", "v", "e", " ", "c", "o", "d", "e", "]", " ", "}">>)]

\* what a plain object literal inherits from Object.prototype
ObjectPrototypeKeys ==
  {S(<<"c", "o", "n", "s", "t", "r", "u", "c", "t", "o", "r">>), S(<<"_", "_", "p", "r", "o", "t", "o", "_", "_">>), S(<<"t", "o", "S", "t", "r", "i", "n", "g">>), S(<<"t", "o", "L", "o", "c", "a", "l", "e", "S", "t", "r", "i", "n", "g">>), S(<<"v", "a", "l", "u", "e", "O", "f">>),
   S(<<"h", "a", "s", "O", "w", "n", "P", "r", "o", "p", "e", "r", "t", "y">>), S(<<"i", "s", "P", "r", "o", "t", "o", "t", "y", "p", "e", "O", "f">>), S(<<"p", "r", "o", "p", "e", "r", "t", "y", "I", "s", "E", "n", "u", "m", "e", "r", "a", "b", "l", "e">>),
   S(<<"_", "_", "d", "e", "f", "i", "n", "e", "G", "e", "t", "t", "e", "r", "_", "_">>), S(<<"_", "_", "d", "e", "f", "i", "n", "e", "S", "e", "t", "t", "e", "r", "_", "_">>), S(<<"_", "_", "l", "o", "o", "k", "u", "p", "G", "e", "t", "t", "e", "r", "_", "_">>), S(<<"_", "_", "l", "o", "o", "k", "u", "p", "S", "e", "t", "t", "e", "r", "_", "_">>)}

Inherited(key) ==
  IF key = S(<<"_", "_", "p", "r", "o", "t", "o", "_", "_">>) THEN Obj(<<>>)
  ELSE IF key = S(<<"c", "o", "n", "s", "t", "r", "u", "c", "t", "o", "r">>) THEN Function(S(<<"O", "b", "j", "e", "c", "t">>))
  ELSE Function(key)

\* String(x) for a value used as a property key or in a template
KeyText(x) == IF x.t = "function" THEN x.v ELSE ToStr(x)

\* normalizeProtocol without the alias table (a variant the dispatcher does not
\* use: SupportedSchemeSucceeds fails under it)
normalizeProtocolUnaliased(raw) == Str(ToLowerCase(Trim(ToStr(Or(raw, Str(<<>>))))))

\* normalizeProtocol without toLowerCase (a variant the dispatcher does not
\* use: FailureOnlyForUnknownScheme fails under it)
normalizeProtocolCased(raw) ==
  Let([p \in {Trim(ToStr(Or(raw, Str(<<>>))))},
        aliases \in {Obj(PROTOCOL_ALIASES)} |->
    IF HasKey(aliases, p) THEN Str(Get(aliases, p))
    ELSE IF p \in ObjectPrototypeKeys THEN Inherited(p)
    ELSE Str(p)])

\* PROTOCOL_ALIASES[p] || p
normalizeProtocol(raw) ==
  Let([p \in {ToLowerCase(Trim(ToStr(Or(raw, Str(<<>>)))))},
        aliases \in {Obj(PROTOCOL_ALIASES)} |->
    IF HasKey(aliases, p) THEN Str(Get(aliases, p))
    ELSE IF p \in ObjectPrototypeKeys THEN Inherited(p)
    ELSE Str(p)])

\* map[key] for a table written as an object literal: an own entry, an
\* inherited member of Object.prototype, or undefined
Lookup(map, key) ==
  IF key \in map THEN "own" ELSE IF key \in ObjectPrototypeKeys THEN "inherited" ELSE "undefined"

\* parserMap[proto].parse(raw)
ParserCall(env, proto, raw) ==
  CASE proto = P_vless -> VLESSParser_parse(env, raw)
    [] proto = P_vmess -> VMessParser_parse(env, raw)
    [] proto = P_ss -> SSParser_parse(env, raw)
    [] proto = P_trojan -> TrojanParser_parse(raw)
    [] proto = P_hysteria2 -> Hysteria2Parser_parse(raw)
    [] proto = P_ssr -> SSRParser_parse(env, raw)
    [] proto = P_hysteria -> HysteriaParser_parse(raw)
    [] proto = P_tuic -> TUICParser_parse(env, raw)

\* converterMap[proto].convert(node)
ConverterCall(proto, node) ==
  CASE proto = P_vless -> VLESSConverter_convert(node)
    [] proto = P_vmess -> VMessConverter_convert(node)
    [] proto = P_ss -> SSConverter_convert(node)
    [] proto = P_trojan -> TrojanConverter_convert(node)
    [] proto = P_hysteria2 -> Hysteria2Converter_convert(node)
    [] proto = P_ssr -> SSRConverter_convert(node)
    [] proto = P_hysteria -> HysteriaConverter_convert(node)
    [] proto = P_tuic -> TUICConverter_convert(node)

K_success == S(<<"s", "u", "c", "c", "e", "s", "s">>)
K_proxy == S(<<"p", "r", "o", "x", "y">>)
K_error == S(<<"e", "r", "r", "o", "r">>)
K_proxies == S(<<"p", "r", "o", "x", "i", "e", "s">>)
K_errors == S(<<"e", "r", "r", "o", "r", "s">>)
K_line == S(<<"l", "i", "n", "e">>)
K_link == S(<<"l", "i", "n", "k">>)

\* the code units of the two messages of the dispatcher
InvalidLinkMessage == <<26080, 25928, 30340, 20195, 29702, 38142, 25509>>
UnsupportedPrefix == <<19981, 25903, 25345, 30340, 21327, 35758, CH_COLON, CH_SP>>
NotAFunctionMessage == S(<<"p", "a", "r", "s", "e", "r", ".", "p", "a", "r", "s", "e", " ", "i", "s", " ", "n", "o", "t", " ", "a", " ", "f", "u", "n", "c", "t", "i", "o", "n">>)

Failure(message) == Obj(<< <<K_success, Bool(FALSE)>>, <<K_error, Str(message)>> >>)

\* raw.split("://")[0]
SchemeToken(raw) ==
  IF IndexOf(raw, S(<<":", "/", "/">>)) >= 0 THEN Slice(raw, 0, IndexOf(raw, S(<<":", "/", "/">>))) ELSE raw

\* const node = parser.parse(raw); const proxy = converter.convert(node)
Converted(env, key, raw) ==
  Let([node \in {ParserCall(env, key, Str(raw))} |->
    [result |-> Obj(<< <<K_success, Bool(TRUE)>>,
                       <<K_proxy, ConverterCall(key, node)>>,
                       <<K_warnings, Or(pick(node, K_warnings), Arr(<<>>))>> >>),
     calls |-> << <<"parse", key>>, <<"convert", key>> >>]])

\* the result of parseProxyLink and the parser and converter calls it made
parseProxyLink(env, link) ==
  Let([raw \in {Trim(ToStr(Or(link, Str(<<>>))))} |->
  Let([proto \in {normalizeProtocol(Str(SchemeToken(raw)))} |->
  Let([key \in {KeyText(proto)} |->
  Let([parser \in {Lookup(parserMap, key)},
        converter \in {Lookup(converterMap, key)} |->
    IF raw = <<>> THEN [result |-> Failure(InvalidLinkMessage), calls |-> <<>>]
    ELSE IF parser = "undefined" \/ converter = "undefined"
         THEN [result |-> Failure(UnsupportedPrefix
                                  \o (IF Truthy(proto) THEN key ELSE S(<<"(", "u", "n", "k", "n", "o", "w", "n", ")">>))),
               calls |-> <<>>]
    ELSE IF parser = "inherited"
         THEN [result |-> Failure(NotAFunctionMessage), calls |-> <<>>]
    ELSE Converted(env, key, raw)])])])])

\* the longest link text an error entry quotes
LinkLimit == 80

\* lines, or String(lines || "").split("\n")
BatchLines(lines) ==
  IF lines.t = "array" THEN lines.v
  ELSE Let([parts \in {SplitOn(ToStr(Or(lines, Str(<<>>))), {10})} |->
         [i \in 1..Len(parts) |-> Str(parts[i])]])

\* if (!trimmed) return, alone (a variant the batch does not use:
\* BatchCounts fails under it)
SkippedWhenBlank(trimmed) == trimmed = <<>>

\* if (!trimmed || !trimmed.includes("://")) return
Skipped(trimmed) == trimmed = <<>> \/ ~Includes(trimmed, S(<<":", "/", "/">>))

\* an entry with line: index, the 0-based position (a variant the batch does
\* not use: BatchOrder fails under it)
ErrorEntryFromZero(index, shown, error) ==
  Obj(<< <<K_line, Num(index - 1)>>, <<K_link, Str(shown)>>, <<K_error, error>> >>)

\* { line: index + 1, link, error } for the line at the 1-based position index
ErrorEntry(index, shown, error) ==
  Obj(<< <<K_line, Num(index)>>, <<K_link, Str(shown)>>, <<K_error, error>> >>)

\* the forEach callback, folded over the lines from position index (1-based)
RECURSIVE BatchFold(_, _, _, _, _)
BatchFold(env, items, index, proxies, errors) ==
  IF index > Len(items)
  THEN Obj(<< <<K_proxies, Arr(proxies)>>, <<K_errors, Arr(errors)>> >>)
  ELSE Let([trimmed \in {Trim(ToStr(Or(items[index], Str(<<>>))))} |->
       LET shown == IF Len(trimmed) > LinkLimit
                    THEN Slice(trimmed, 0, LinkLimit) \o S(<<".", ".", ".">>)
                    ELSE trimmed
       IN  Let([result \in {parseProxyLink(env, Str(trimmed)).result} |->
         IF Skipped(trimmed)
         THEN BatchFold(env, items, index + 1, proxies, errors)
         ELSE IF IsTrue(Get(result, K_success))
         THEN BatchFold(env, items, index + 1, Append(proxies, Get(result, K_proxy)), errors)
         ELSE BatchFold(env, items, index + 1, proxies,
                        Append(errors, ErrorEntry(index, shown, Get(result, K_error))))])])

parseBatchProxyLinks(env, lines) == BatchFold(env, BatchLines(lines), 1, <<>>, <<>>)

(***************************************************************************)
(* The inputs                                                              *)
(***************************************************************************)
\* longest run of arbitrary characters appended to a scheme
MaxLen == 2
\* most lines in a batch
MaxLines == 3

\* the two runtimes base64DecodeUtf8 distinguishes
Envs == {"node", "browser"}

\* scheme tokens: the eight identifiers, the two aliases, other spellings,
\* names no table holds and names a plain object inherits
Schemes ==
  {P_vless, P_vmess, P_ss, P_trojan, P_hysteria2, P_ssr, P_hysteria, P_tuic,
   S(<<"h", "y", "2">>), S(<<"s", "h", "a", "d", "o", "w", "s", "o", "c", "k", "s">>), S(<<"V", "L", "e", "s", "s">>), S(<<"s", "s", " ">>), S(<<"f", "o", "o", "b", "a", "r">>), S(<<"c", "o", "n", "s", "t", "r", "u", "c", "t", "o", "r">>), S(<<"_", "_", "p", "r", "o", "t", "o", "_", "_">>), <<>>}

GarbageChars == {CH_PCT, CH_AT, CH_COLON, 49}

\* every string over GarbageChars of length at most MaxLen
Garbage == UNION {[1..k -> GarbageChars] : k \in 0..MaxLen}

\* well-formed and malformed link bodies
Bodies ==
  {S(<<"u", "@", "h", ".", "c", ":", "4", "4", "3", "?", "s", "n", "i", "=", "a", "&", "t", "y", "p", "e", "=", "w", "s", "&", "p", "a", "t", "h", "=", "%", "2", "F", "p", "#", "n", "%", "2", "0", "a">>),
   S(<<"1", "1", "1", "1", "1", "1", "1", "1", "-", "2", "2", "2", "2", "-", "3", "3", "3", "3", "-", "a", "4", "4", "4", "-", "5", "5", "5", "5", "5", "5", "5", "5", "5", "5", "5", "5", "@", "h", ":", "4", "4", "3", "?", "s", "e", "c", "u", "r", "i", "t", "y", "=", "r", "e", "a", "l", "i", "t", "y", "&", "p", "b", "k", "=", "k", "#", "n">>),
   S(<<"p", "@", "h", ":", "0">>), S(<<"p", "@", "h", ":", "6", "5", "5", "3", "6">>), S(<<"p", "@", "[", ":", ":", "1", "]", ":", "8">>), S(<<"p", "@", ":", ":", "1">>), S(<<"u", ":", "p", "@", "h", ":", "1", "#", "%", "z", "z">>),
   S(<<"%", "E", "0", "%", "A", "4", "%", "A">>), S(<<" ">>), S(<<"#">>),
   S(<<"u", ":", "p", "@", "h", ":", "1", "?", "i", "n", "s", "e", "c", "u", "r", "e", "=", "1", "&", "a", "l", "p", "n", "=", "h", "2", ",", "h", "3", "&", "o", "b", "f", "s", "=", "s", "a", "l", "a", "m", "a", "n", "d", "e", "r", "&", "u", "p", "m", "b", "p", "s", "=", "1">>),
   S(<<"e", "y", "J", "h", "Z", "G", "Q", "i", "O", "i", "J", "o", "I", "i", "w", "i", "c", "G", "9", "y", "d", "C", "I", "6", "N", "z", "A", "w", "M", "D", "A", "s", "I", "n", "B", "z", "I", "j", "o", "i", "I", "n", "0", "=">>),
   S(<<"e", "y", "J", "h", "Z", "G", "Q", "i", "O", "i", "J", "o", "I", "i", "w", "i", "c", "G", "9", "y", "d", "C", "I", "6", "M", "S", "4", "1", "f", "Q", "=", "=">>),
   S(<<"e", "y", "J", "h", "Z", "G", "Q", "i", "O", "i", "J", "o", "I", "i", "w", "=">>),
   S(<<"{", "\\", "\"", "a", "d", "d", "\\", "\"", ":", "\\", "\"", "h", "\\", "\"", ",", "\\", "\"", "p", "o", "r", "t", "\\", "\"", ":", "\\", "\"", "4", "4", "3", "\\", "\"", ",", "\\", "\"", "p", "s", "\\", "\"", ":", "1", ",", "}">>),
   S(<<"Y", "T", "p", "i", "@", "h", ":", "8", "3", "8", "8", "?", "p", "l", "u", "g", "i", "n", "=", "o", "b", "f", "s", "-", "l", "o", "c", "a", "l", "%", "3", "B", "o", "b", "f", "s", "=", "h", "t", "t", "p", "#", "n">>),
   S(<<"Y", "T", "p", "i", "Q", "G", "g", "6", "M", "Q", "=", "=">>),
   S(<<"a", "D", "o", "x", "O", "n", "A", "6", "b", "T", "p", "v", "O", "l", "l", "R">>),
   S(<<"a", "D", "o", "5", "O", "T", "k", "5", "O", "T", "p", "w", "O", "m", "0", "6", "b", "z", "p", "Z", "U", "Q", "=", "=">>),
   S(<<"h", ":", "1", "?", "a", "u", "t", "h", "=", "{", "\\", "\"", "a", "\\", "\"", ":", "1", "}">>)}

\* links with no "://", the empty link and links of white space only
Schemeless == {<<>>, <<CH_SP>>, <<CH_TAB, 10, CH_SP>>, S(<<"h", ":", "1">>), S(<<"v", "l", "e", "s", "s", ":", "u", "@", "h", ":", "1">>)}

\* the clean VLESS link the documentation gives as an example
CleanVlessLink ==
  S(<<"v", "l", "e", "s", "s", ":", "/", "/", "1", "1", "1", "1", "1", "1", "1", "1", "-", "2", "2", "2", "2", "-", "3", "3", "3", "3", "-", "4", "4", "4", "4", "-", "5", "5", "5", "5", "5", "5", "5", "5", "5", "5", "5", "5", "@", "e", "x", "a", "m", "p", "l", "e", ".", "c", "o", "m", ":", "4", "4", "3", "?", "s", "e", "c", "u", "r", "i", "t", "y", "=", "t", "l", "s", "&", "s", "n", "i", "=", "e", "x", "a", "m", "p", "l", "e", ".", "c", "o", "m", "&", "t", "y", "p", "e", "=", "w", "s", "&", "p", "a", "t", "h", "=", "%", "2", "F", "w", "s", "#", "M", "y", "N", "o", "d", "e">>)

\* the Base64 character of a sextet
B64Char(v) ==
  IF v < 26 THEN 65 + v
  ELSE IF v < 52 THEN 71 + v
  ELSE IF v < 62 THEN v - 4
  ELSE IF v = 62 THEN CH_PLUS ELSE CH_SLASH

\* the standard Base64 encoding, padded with "=", of a text of ASCII characters
Base64Encode(text) ==
  [j \in 1..(4 * ((Len(text) + 2) \div 3)) |->
     LET g == 3 * ((j - 1) \div 4)
         r == (j - 1) % 4
         a == text[g + 1]
         b == IF g + 2 <= Len(text) THEN text[g + 2] ELSE 0
         c == IF g + 3 <= Len(text) THEN text[g + 3] ELSE 0
     IN  IF r = 0 THEN B64Char(a \div 4)
         ELSE IF r = 1 THEN B64Char((a % 4) * 16 + (b \div 16))
         ELSE IF r = 2
         THEN (IF g + 2 > Len(text) THEN CH_EQ ELSE B64Char((b % 16) * 4 + (c \div 64)))
         ELSE (IF g + 3 > Len(text) THEN CH_EQ ELSE B64Char(c % 64))]

\* UUIDs in the standard notation of 8-4-4-4-12 hexadecimal digits: of
\* versions 1, 4 and 5 in lower and in upper case, the UUID of the clean VLESS
\* link, a UUID of version 7 and the nil UUID
StandardUuids ==
  {S(<<"1", "2", "3", "e", "4", "5", "6", "7", "-", "e", "8", "9", "b", "-", "1", "2", "d", "3", "-", "a", "4", "5", "6", "-", "4", "2", "6", "6", "1", "4", "1", "7", "4", "0", "0", "0">>),
   S(<<"F", "4", "7", "A", "C", "1", "0", "B", "-", "5", "8", "C", "C", "-", "4", "3", "7", "2", "-", "A", "5", "6", "7", "-", "0", "E", "0", "2", "B", "2", "C", "3", "D", "4", "7", "9">>),
   S(<<"0", "0", "0", "0", "0", "0", "0", "0", "-", "0", "0", "0", "0", "-", "5", "0", "0", "0", "-", "b", "0", "0", "0", "-", "0", "0", "0", "0", "0", "0", "0", "0", "0", "0", "0", "f">>),
   S(<<"1", "1", "1", "1", "1", "1", "1", "1", "-", "2", "2", "2", "2", "-", "3", "3", "3", "3", "-", "4", "4", "4", "4", "-", "5", "5", "5", "5", "5", "5", "5", "5", "5", "5", "5", "5">>),
   S(<<"0", "1", "8", "9", "0", "a", "5", "d", "-", "a", "c", "9", "6", "-", "7", "7", "4", "b", "-", "b", "c", "c", "e", "-", "b", "3", "0", "2", "0", "9", "9", "a", "8", "0", "5", "7">>),
   S(<<"0", "0", "0", "0", "0", "0", "0", "0", "-", "0", "0", "0", "0", "-", "0", "0", "0", "0", "-", "0", "0", "0", "0", "-", "0", "0", "0", "0", "0", "0", "0", "0", "0", "0", "0", "0">>)}

\* the links of the three protocols that carry a UUID, with field in the place
\* of the UUID: in the userinfo of a VLESS link, before the password in the
\* userinfo of a TUIC link, and as the id of the JSON a VMess link encodes
UuidLink(p, field) ==
  IF p = P_vless THEN S(<<"v", "l", "e", "s", "s", ":", "/", "/">>) \o field \o S(<<"@", "h", ".", "c", ":", "4", "4", "3", "?", "t", "y", "p", "e", "=", "t", "c", "p", "#", "n">>)
  ELSE IF p = P_tuic THEN S(<<"t", "u", "i", "c", ":", "/", "/">>) \o field \o S(<<":", "p", "w", "@", "h", ".", "c", ":", "4", "4", "3", "#", "n">>)
  ELSE S(<<"v", "m", "e", "s", "s", ":", "/", "/">>) \o Base64Encode(S(<<"{", "\"", "v", "\"", ":", "\"", "2", "\"", ",", "\"", "p", "s", "\"", ":", "\"", "n", "\"", ",", "\"", "a", "d", "d", "\"", ":", "\"", "h", ".", "c", "\"", ",", "\"", "p", "o", "r", "t", "\"", ":", "\"", "4", "4", "3", "\"", ",", "\"", "i", "d", "\"", ":", "\"">>) \o field \o S(<<"\"", ",", "\"", "a", "i", "d", "\"", ":", "\"", "0", "\"", ",", "\"", "n", "e", "t", "\"", ":", "\"", "t", "c", "p", "\"", "}">>))

UuidProtocols == {P_vless, P_vmess, P_tuic}

\* for each of the three protocols and each UUID, the link whose UUID field is
\* the Base64 encoding of the UUID
Base64UuidLinks ==
  [p \in UuidProtocols |-> [u \in StandardUuids |-> UuidLink(p, Base64Encode(u))]]

\* sub-options of a plugin, as <<key, value>>
PluginSubOptions ==
  {<<S(<<"o", "b", "f", "s">>), S(<<"h", "t", "t", "p">>)>>,
   <<S(<<"o", "b", "f", "s", "-", "h", "o", "s", "t">>), S(<<"e", "x", "a", "m", "p", "l", "e", ".", "c", "o", "m">>)>>,
   <<S(<<"m", "o", "d", "e">>), S(<<"w", "e", "b", "s", "o", "c", "k", "e", "t">>)>>}

\* the plugin values of the ss links: a plugin name followed by one or two
\* sub-options of different keys, written with ";" and "=" as they are
\* ("literal") or percent-encoded ("percent")
SsPluginCases ==
  {[plugin |-> n, opts |-> o, encoding |-> e] :
     n \in {S(<<"o", "b", "f", "s", "-", "l", "o", "c", "a", "l">>), S(<<"v", "2", "r", "a", "y", "-", "p", "l", "u", "g", "i", "n">>)},
     o \in {<<a>> : a \in PluginSubOptions}
          \cup {ab \in PluginSubOptions \X PluginSubOptions : ab[1][1] # ab[2][1]},
     e \in {"literal", "percent"}}

\* the plugin value of a case, as the link writes it
SsPluginText(c) ==
  LET semi == IF c.encoding = "literal" THEN <<CH_SEMI>> ELSE S(<<"%", "3", "B">>)
      eq == IF c.encoding = "literal" THEN <<CH_EQ>> ELSE S(<<"%", "3", "D">>)
  IN  c.plugin \o JoinWith([i \in 1..Len(c.opts) |-> semi \o c.opts[i][1] \o eq \o c.opts[i][2]], <<>>)

\* the ss link of each case: the plugin parameter followed by another one
SsPluginLinks ==
  [c \in SsPluginCases |->
     S(<<"s", "s", ":", "/", "/", "Y", "T", "p", "i", "@", "h", ".", "c", ":", "8", "3", "8", "8", "?", "p", "l", "u", "g", "i", "n", "=">>) \o SsPluginText(c) \o S(<<"&", "x", "=", "1", "#", "n">>)]

\* the URL-safe Base64 encoding without padding, as SSR links are written
Base64UrlEncode(text) ==
  LET std == Base64Encode(text)
      n == Len(std) - CountChar(std, CH_EQ)
  IN  ReplaceChar(ReplaceChar(SubSeq(std, 1, n), CH_PLUS, CH_MINUS), CH_SLASH, CH_UNDERSCORE)

\* servers of SSR links: a host name, IPv6 addresses bare and bracketed
SsrServers ==
  {S(<<"h", ".", "c">>), S(<<"2", "0", "0", "1", ":", "d", "b", "8", ":", ":", "1">>), S(<<"[", ":", ":", "1", "]">>)}

\* what an SSR link encodes: server:port:protocol:method:obfs:Base64(password)
\* with the password "pw", or a text with fewer fields
SsrMains ==
  {s \o S(<<":", "8", "3", "8", "8", ":", "o", "r", "i", "g", "i", "n", ":", "a", "e", "s", "-", "2", "5", "6", "-", "c", "f", "b", ":", "p", "l", "a", "i", "n", ":", "c", "H", "c">>) : s \in SsrServers}
  \cup {S(<<"h", ".", "c", ":", "8", "3", "8", "8", ":", "o", "r", "i", "g", "i", "n", ":", "a", "e", "s", "-", "2", "5", "6", "-", "c", "f", "b", ":", "p", "l", "a", "i", "n">>), S(<<"h", ".", "c">>)}

\* the optional suffix of the encoded text: remarks = Base64("r1")
SsrSuffixes == {<<>>, S(<<"/", "?", "r", "e", "m", "a", "r", "k", "s", "=", "c", "j", "E">>)}

\* the SSR links: the text in standard or in URL-safe Base64, with or
\* without a fragment
SsrCases ==
  {[main |-> m, suffix |-> q, encoding |-> e, fragment |-> f] :
     m \in SsrMains, q \in SsrSuffixes, e \in {"standard", "urlsafe"}, f \in {<<>>, S(<<"#", "n">>)}}

\* the Base64 text of a case
SsrPayload(c) ==
  IF c.encoding = "standard" THEN Base64Encode(c.main \o c.suffix)
  ELSE Base64UrlEncode(c.main \o c.suffix)

SsrLinks ==
  [c \in SsrCases |-> S(<<"s", "s", "r", ":", "/", "/">>) \o SsrPayload(c) \o c.fragment]

\* values of the security field of a VMess JSON: the TLS tokens, spellings of
\* them, cipher names and near misses
VmessSecurityTexts ==
  {S(<<"t", "l", "s">>),
   S(<<"x", "t", "l", "s">>),
   S(<<"r", "e", "a", "l", "i", "t", "y">>),
   S(<<"n", "o", "n", "e">>),
   S(<<"t", "r", "u", "e">>),
   S(<<"f", "a", "l", "s", "e">>),
   S(<<"1">>),
   S(<<"0">>),
   S(<<"o", "n">>),
   S(<<"o", "f", "f">>),
   S(<<" ", "T", "L", "S", " ">>),
   S(<<"R", "e", "a", "l", "i", "t", "y">>),
   S(<<"O", "F", "F">>),
   S(<<"a", "e", "s", "-", "1", "2", "8", "-", "g", "c", "m">>),
   S(<<"c", "h", "a", "c", "h", "a", "2", "0", "-", "p", "o", "l", "y", "1", "3", "0", "5">>),
   S(<<"a", "u", "t", "o">>),
   S(<<"z", "e", "r", "o">>),
   S(<<" ", "A", "E", "S", "-", "1", "2", "8", "-", "G", "C", "M">>),
   S(<<"t", "l", "s", "x">>),
   S(<<"n", "o">>)}

\* the security field as the JSON writes it and as a string: the texts above
\* as JSON strings, and numbers and booleans
VmessSecurityCases ==
  {[json |-> <<CH_QUOTE>> \o v \o <<CH_QUOTE>>, text |-> v] : v \in VmessSecurityTexts}
  \cup {[json |-> v, text |-> v] : v \in {S(<<"1">>), S(<<"0">>), S(<<"t", "r", "u", "e">>), S(<<"f", "a", "l", "s", "e">>)}}

\* the VMess link of each case: a JSON with add, port, id and security, and no
\* scy, cipher, tls, tlsMode, sni or alpn
VmessSecurityLinks ==
  [c \in VmessSecurityCases |->
     S(<<"v", "m", "e", "s", "s", ":", "/", "/">>) \o Base64Encode(S(<<"{", "\"", "a", "d", "d", "\"", ":", "\"", "h", ".", "c", "\"", ",", "\"", "p", "o", "r", "t", "\"", ":", "\"", "4", "4", "3", "\"", ",", "\"", "i", "d", "\"", ":", "\"", "1", "2", "3", "e", "4", "5", "6", "7", "-", "e", "8", "9", "b", "-", "1", "2", "d", "3", "-", "a", "4", "5", "6", "-", "4", "2", "6", "6", "1", "4", "1", "7", "4", "0", "0", "0", "\"", ",", "\"", "s", "e", "c", "u", "r", "i", "t", "y", "\"", ":">>) \o c.json \o <<CH_RBRACE>>)]

\* most colon-separated fields of a decoded SSR main part
MaxFields == 7

\* fields of a decoded SSR main part: empty, a name, a number after a blank
SsrFieldTexts == {<<>>, S(<<"a">>), S(<<" ", "1">>)}

\* decoded main parts: every sequence of at most MaxFields fields joined by
\* ":", the main parts of the SSR links, and values that are not strings
SsrMainInputs ==
  {Str(JoinWith(f, <<CH_COLON>>)) : f \in UNION {[1..k -> SsrFieldTexts] : k \in 1..MaxFields}}
  \cup {Str(m) : m \in SsrMains}
  \cup {Str(S(<<" ", "[", "2", "0", "0", "1", ":", "d", "b", "8", ":", ":", "1", "]", ":", "8", "3", "8", "8", ":", "a", "u", "t", "h", "_", "s", "h", "a", "1", "_", "v", "4", ":", "a", "e", "s", "-", "2", "5", "6", "-", "c", "f", "b", ":", "t", "l", "s", "1", ".", "2", "_", "t", "i", "c", "k", "e", "t", "_", "a", "u", "t", "h", ":", "c", "H", "c", " ">>)), Null, Undefined, Num(443)}

\* a query parameter of a Hysteria2 link: absent, present and empty, or
\* present with the value v
ParamChoices(v) == {<<>>, << <<>> >>, <<v>>}

\* where a Hysteria2 link may carry its password: the userinfo (absent or
\* percent-encoded "u@x") and the query parameters password, auth, passwd
Hy2PasswordCases ==
  {[userinfo |-> u, password |-> a, auth |-> b, passwd |-> c] :
     u \in {<<>>, S(<<"u", "%", "4", "0", "x">>)},
     a \in ParamChoices(S(<<"p", "1">>)), b \in ParamChoices(S(<<"a", "1">>)), c \in ParamChoices(S(<<"d", "1">>))}

\* the parameters of a case as the query writes them
Hy2QueryParts(c) ==
  (IF c.password = <<>> THEN <<>> ELSE <<S(<<"p", "a", "s", "s", "w", "o", "r", "d", "=">>) \o c.password[1]>>)
  \o (IF c.auth = <<>> THEN <<>> ELSE <<S(<<"a", "u", "t", "h", "=">>) \o c.auth[1]>>)
  \o (IF c.passwd = <<>> THEN <<>> ELSE <<S(<<"p", "a", "s", "s", "w", "d", "=">>) \o c.passwd[1]>>)

Hy2PasswordLinks ==
  [c \in Hy2PasswordCases |->
     S(<<"h", "y", "s", "t", "e", "r", "i", "a", "2", ":", "/", "/">>) \o (IF c.userinfo = <<>> THEN <<>> ELSE c.userinfo \o <<CH_AT>>) \o S(<<"h", ".", "c", ":", "4", "4", "3">>)
       \o (IF Hy2QueryParts(c) = <<>> THEN <<>> ELSE <<CH_QM>> \o JoinWith(Hy2QueryParts(c), <<CH_AMP>>))
       \o S(<<"#", "n">>)]

\* whole links, scheme included
Examples ==
  {CleanVlessLink} \cup {Base64UuidLinks[p][u] : p \in UuidProtocols, u \in StandardUuids}
  \cup {SsPluginLinks[c] : c \in SsPluginCases}
  \cup {SsrLinks[c] : c \in SsrCases}
  \cup {VmessSecurityLinks[c] : c \in VmessSecurityCases}
  \cup {Hy2PasswordLinks[c] : c \in Hy2PasswordCases}

LinkInputs ==
  {Str(s \o S(<<":", "/", "/">>) \o b) : s \in Schemes, b \in Bodies \cup Garbage}
  \cup {Str(l) : l \in Schemeless}
  \cup {Str(l) : l \in Examples}

\* a record whose String() and Number() throw
Unprintable == Obj(<< <<S(<<"t", "o", "S", "t", "r", "i", "n", "g">>), Num(1)>> >>)

NameValues == {Undefined, Str(<<>>), Str(S(<<" ", " ">>)), Str(S(<<" ", "n", " ">>)), Num(0), Unprintable}
ServerValues == {Undefined, Str(S(<<"h", ".", "c">>)), Null, Arr(<<Str(S(<<"h">>))>>)}
PortValues ==
  {Undefined, Null, Num(443), Num(-1), Frac(FALSE, 1, <<53>>), NaN, Str(S(<<" ", "4", "4", "3", " ">>)),
   Str(S(<<"0", "x", "1", "F">>)), Str(S(<<"1", "e", "3">>)), Str(S(<<"-", "I", "n", "f", "i", "n", "i", "t", "y">>)), Str(S(<<"4", "4", "3", "x">>)), Bool(TRUE),
   Arr(<<Str(S(<<"8">>))>>), Obj(<<>>), Unprintable}

\* the sub-records and extra fields some records carry
Extras ==
  {<<>>,
   << <<K_tls, Str(S(<<"x">>))>>, <<K_transport, Num(1)>> >>,
   << <<K_tls, Obj(<< <<K_enabled, Num(1)>>, <<K_sni, Str(S(<<"a">>))>>,
                      <<K_alpn, Arr(<<Str(S(<<"h", "2">>)), Null>>)>>,
                      <<K_insecure, Str(S(<<"y">>))>>,
                      <<K_reality, Obj(<< <<K_sid, Str(S(<<"a", "b">>))>> >>)>> >>)>>,
      <<K_transport, Obj(<< <<K_network, Str(S(<<"w", "s">>))>>,
                            <<K_ws, Obj(<< <<K_host, Str(S(<<"h">>))>> >>)>> >>)>> >>,
   << <<K_transport, Obj(<< <<K_network, Str(S(<<"h", "2">>))>>,
                            <<K_h2, Obj(<< <<K_host, Str(S(<<"a", ",", " ", "b">>))>>, <<K_path, Str(S(<<"/">>))>> >>)>> >>)>>,
      <<K_alterId, Unprintable>> >>,
   << <<K_recvWindow, Unprintable>>, <<K_requestTimeout, Unprintable>>,
      <<K_plugin, Str(S(<<"O", "b", "f", "s">>))>>, <<K_pluginOpts, Obj(<< <<S(<<"m", "o", "d", "e">>), Str(S(<<"t", "l", "s">>))>> >>)>> >>,
   << <<K_recvWindowConn, Str(S(<<"1", "2">>))>>, <<K_maxConn, Num(-1)>>, <<K_fastOpen, Bool(TRUE)>>,
      <<K_smux, Obj(<< <<K_enabled, Bool(TRUE)>> >>)>>,
      <<S(<<"a", "u", "t", "h">>), Obj(<< <<S(<<"a">>), Num(1)>> >>)>>,
      <<K_requestTimeout, Frac(FALSE, 0, <<53>>)>>,
      <<K_plugin, Str(S(<<"v", "2", "r", "a", "y", "-", "p", "l", "u", "g", "i", "n">>))>>,
      <<K_pluginOpts, Obj(<< <<K_tls, Bool(TRUE)>>, <<K_host, Str(S(<<"h">>))>> >>)>> >>}

\* values that are not records at all
NonRecords == {Undefined, Null, Num(5), Bool(FALSE), Str(S(<<"v", "l", "e", "s", "s", ":", "/", "/", "u", "@", "h", ":", "1">>)), Arr(<<>>), Arr(<<Num(1)>>)}

\* the zeroed records the parsers return for empty input
ZeroedRecords ==
  {ZeroedNode(P_trojan, <<K_password>>, <<>>, <<Warn("trojan: empty input")>>),
   ZeroedNode(P_tuic, <<K_uuid, K_password>>, <<>>, <<>>),
   ZeroedNode(P_hysteria, <<>>, <<>>, <<>>)}

RecordInputs ==
  {Obj(<< <<K_name, n>>, <<K_server, s>>, <<K_port, p>> >> \o e) :
     n \in NameValues, s \in ServerValues, p \in PortValues, e \in Extras}
  \cup NonRecords \cup ZeroedRecords

\* the lines a batch is made of
LineValues ==
  {<<>>, <<CH_SP, CH_TAB>>, S(<<"#", " ", "c", "o", "m", "m", "e", "n", "t">>), S(<<" ", "f", "o", "o", "b", "a", "r", ":", "/", "/", "x", " ">>), S(<<"t", "r", "o", "j", "a", "n", ":", "/", "/", "p", "@", "h", ":", "1", "#", "a">>), S(<<"h", "y", "2", ":", "/", "/", "p", "@", "h", ":", "2", "#", "b">>)}

LineLists == UNION {[1..k -> LineValues] : k \in 0..MaxLines}

\* a batch is given as an array of lines or as one newline-delimited text
BatchInputs ==
  {Arr([i \in 1..Len(l) |-> Str(l[i])]) : l \in LineLists}
  \cup {Str(JoinWith(l, <<10>>)) : l \in LineLists}

\* longest authority made of arbitrary characters
MaxAuthority == 4

AuthorityChars == {CH_LBRACKET, CH_RBRACKET, CH_COLON, CH_AT, 49}

\* hosts, bracketed and bare, well formed and not
AuthorityHosts ==
  {S(<<"[", "2", "0", "0", "1", ":", "d", "b", "8", ":", ":", "1", "]">>),
   S(<<"[", ":", ":", "1", "]">>),
   S(<<":", ":", "1">>),
   S(<<"2", "0", "0", "1", ":", "d", "b", "8", ":", ":", "1">>),
   S(<<"f", "e", "8", "0", ":", ":", "1", ":", "4", "4", "3">>),
   S(<<"h", ".", "c">>),
   S(<<"[">>),
   S(<<"[", "]">>),
   S(<<"[", ":", ":", "1", "]", "x">>),
   S(<<" ", "[", ":", ":", "1", "]">>),
   S(<<"[", ":", ":", "1">>),
   S(<<"a", "]">>)}

\* what follows the host
AuthorityPorts ==
  {<<>>,
   S(<<":">>),
   S(<<":", "4", "4", "3", "a", "b", "c">>),
   S(<<":", "0", "0", "0", "4", "4", "3">>),
   S(<<":", "4", "4", "3">>),
   S(<<":", "1">>),
   S(<<":", "0">>),
   S(<<":", "6", "5", "5", "3", "5">>),
   S(<<":", "6", "5", "5", "3", "6">>),
   S(<<":", "9", "9", "9", "9", "9">>),
   S(<<":", "1", "0", "0", "0", "0", "0">>),
   S(<<":", "-", "1">>),
   S(<<":", "+", "8">>),
   S(<<":", " ", "8">>),
   S(<<":", "8", "x">>),
   S(<<":", "0", "0", "4", "4", "3">>)}

\* what precedes the host
AuthorityUsers == {<<>>,
                   S(<<"u", "@">>),
                   S(<<"u", ":", "p", "@">>),
                   S(<<"/", "/", "u", "@">>)}

\* the authorities parseAuthority is given: a host with what follows and
\* precedes it, every string over AuthorityChars of length at most
\* MaxAuthority, and the values that are not strings
AuthorityInputs ==
  {Str(u \o h \o q) : u \in AuthorityUsers, h \in AuthorityHosts, q \in AuthorityPorts}
  \cup {Str(s) : s \in UNION {[1..k -> AuthorityChars] : k \in 0..MaxAuthority}}
  \cup {Null, Undefined, Num(443)}

\* most pairs in a query
MaxPairs == 3

\* the pairs a query is made of: with and without "=", with an empty key, an
\* empty value, a percent-encoded key, a second "=", "+" and a malformed
\* percent-encoding
QueryPairs ==
  {<<>>, S(<<"f", "l", "a", "g">>), S(<<"a", "=", "1">>), S(<<"a", "=">>), S(<<"=", "1">>), S(<<"%", "6", "1", "=", "3", "=", "4">>), S(<<"a", "+", "b", "=", "c", "+", "d">>), S(<<"%", "=", "%", "z", "z">>)}

QueryPairLists == UNION {[1..k -> QueryPairs] : k \in 0..MaxPairs}

\* the queries parseQuery is given: pairs joined by "&" or by ";", with and
\* without the leading "?", and the values that are not strings
QueryInputs ==
  {Str(lead \o JoinWith(l, sep)) :
     lead \in {<<>>, <<CH_QM>>}, sep \in {<<CH_AMP>>, <<CH_SEMI>>}, l \in QueryPairLists}
  \cup {Null, Undefined, Num(443)}

(***************************************************************************)
(* backend/services/auth.service.js                                        *)
(***************************************************************************)
MAX_LOGIN_ATTEMPTS == 5
LOGIN_BLOCK_TIME == 900000
DEFAULT_TOKEN_TTL_MS == 86400000
\* AUTH_TOKEN_TTL_MS of the test configuration
TEST_TOKEN_TTL_MS == 30

AUTH_USERNAME == "testuser"
AUTH_PASSWORD == "testpass123"
JWT_SECRET == "test-jwt-secret"
JWT_ALG == "HS256"

\* crypto.createHmac('sha256', key).update(signingInput).digest(): a value
\* that only the same key and the same input give
Hmac(key, signingInput) == <<"hmac", key, signingInput>>

\* a request without the cookie or without the header (an empty one counts
\* as none: both are falsy), and a text that is not three dot-separated parts
NoToken == [shape |-> "none"]
NotAJwt == [shape |-> "text"]

signJwt(username, ttlMs, nowMs, jti) ==
  Let([expMs \in {nowMs + ttlMs} |->
  Let([header \in {[alg |-> JWT_ALG, typ |-> "JWT"]} |->
  Let([payload \in {[sub |-> username, iat |-> nowMs \div 1000,
                     exp |-> (expMs + 999) \div 1000, expMs |-> expMs, jti |-> jti]} |->
    [shape |-> "jwt", header |-> header, payload |-> payload,
     signature |-> Hmac(JWT_SECRET, <<header, payload>>)]])])])

\* a variant the service does not use: it does not compare the signature, and
\* GuardedNeverHandled fails under it
verifyTokenUnsigned(token, nowMs) ==
  IF token.shape # "jwt" THEN FALSE
  ELSE IF token.header.alg # JWT_ALG \/ token.header.typ # "JWT" THEN FALSE
  ELSE IF token.payload.sub = "" THEN FALSE
  ELSE IF nowMs >= token.payload.expMs THEN FALSE
  ELSE TRUE

verifyToken(token, nowMs) ==
  IF token.shape # "jwt" THEN FALSE
  ELSE IF token.signature # Hmac(JWT_SECRET, <<token.header, token.payload>>) THEN FALSE
  ELSE IF token.header.alg # JWT_ALG \/ token.header.typ # "JWT" THEN FALSE
  ELSE IF token.payload.sub = "" THEN FALSE
  ELSE IF nowMs >= token.payload.expMs THEN FALSE
  ELSE IF nowMs \div 1000 >= token.payload.exp THEN FALSE
  ELSE TRUE

\* a variant the service does not use: it drops an entry a millisecond early,
\* and BlockedAfterFiveFailures fails under it
pruneLoginAttemptsEarly(attempts, nowMs) ==
  [ip \in {i \in DOMAIN attempts : nowMs - attempts[i].lastAttempt < LOGIN_BLOCK_TIME - 1}
     |-> attempts[ip]]

\* loginAttempts is a Map: a function from the client addresses that have an
\* entry to { count, lastAttempt }
pruneLoginAttempts(attempts, nowMs) ==
  [ip \in {i \in DOMAIN attempts : nowMs - attempts[i].lastAttempt < LOGIN_BLOCK_TIME}
     |-> attempts[ip]]

\* { blocked } and the Map it leaves
getLoginBlockInfo(attempts, clientIp, nowMs) ==
  Let([pruned \in {pruneLoginAttempts(attempts, nowMs)} |->
    IF clientIp \notin DOMAIN pruned \/ pruned[clientIp].count < MAX_LOGIN_ATTEMPTS
    THEN [blocked |-> FALSE, attempts |-> pruned]
    ELSE IF nowMs - pruned[clientIp].lastAttempt >= LOGIN_BLOCK_TIME
    THEN [blocked |-> FALSE,
          attempts |-> [ip \in DOMAIN pruned \ {clientIp} |-> pruned[ip]]]
    ELSE [blocked |-> TRUE, attempts |-> pruned]])

Max(a, b) == IF a >= b THEN a ELSE b

\* the attempts of clientIp after one more failure
CountFailure(attempts, clientIp, nowMs) ==
  Let([count \in {IF clientIp \in DOMAIN attempts THEN attempts[clientIp].count + 1 ELSE 1} |->
    [ip \in DOMAIN attempts \cup {clientIp} |->
       IF ip = clientIp THEN [count |-> count, lastAttempt |-> nowMs] ELSE attempts[ip]]])

\* { status, payload } and the Map it leaves
loginUser(enabled, attempts, username, password, clientIp, ttlMs, nowMs, jti) ==
  IF ~enabled
  THEN [status |-> 400, token |-> NoToken, remainingAttempts |-> -1, attempts |-> attempts]
  ELSE
  Let([blockInfo \in {getLoginBlockInfo(attempts, clientIp, nowMs)} |->
    IF blockInfo.blocked
    THEN [status |-> 429, token |-> NoToken, remainingAttempts |-> -1,
          attempts |-> blockInfo.attempts]
    ELSE IF username = AUTH_USERNAME /\ password = AUTH_PASSWORD
    THEN [status |-> 200, token |-> signJwt(username, ttlMs, nowMs, jti),
          remainingAttempts |-> -1,
          attempts |-> [ip \in DOMAIN blockInfo.attempts \ {clientIp} |-> blockInfo.attempts[ip]]]
    ELSE
    Let([after \in {CountFailure(blockInfo.attempts, clientIp, nowMs)} |->
      [status |-> 401, token |-> NoToken,
       remainingAttempts |-> Max(0, MAX_LOGIN_ATTEMPTS - after[clientIp].count),
       attempts |-> after]])])

(***************************************************************************)
(* backend/middleware/auth.middleware.js                                   *)
(***************************************************************************)
\* const token = tokenFromCookie || tokenFromHeader
PresentedToken(cookie, bearer) == IF cookie.shape # "none" THEN cookie ELSE bearer

\* 0 for next(), or the status it answers
authMiddleware(enabled, cookie, bearer, nowMs) ==
  IF ~enabled THEN 0
  ELSE IF PresentedToken(cookie, bearer).shape = "none" THEN 401
  ELSE IF ~verifyToken(PresentedToken(cookie, bearer), nowMs) THEN 401
  ELSE 0

(***************************************************************************)
(* The state of the backend: the configuration read at start (authEnabled, *)
(* tokenTtl), the clock (now, after ticks advances), the loginAttempts Map *)
(* of the auth service and the request last answered (response).  issued   *)
(* and loggedOut record the tokens the service signed and the tokens       *)
(* presented to a successful logout; failures counts, for each client      *)
(* address, its failed logins in a row and the time of the last one.       *)
(***************************************************************************)
VARIABLES authEnabled, tokenTtl, now, ticks, loginAttempts, issued, loggedOut,
          failures, response

authVars ==
  <<authEnabled, tokenTtl, now, ticks, loginAttempts, issued, loggedOut, failures, response>>

MaxTicks == 2
MaxTokens == 1

ClientIps == {"9.9.9.9", "3.3.3.3"}

\* the clock advances by a millisecond or by just less than the block time
Delays == {1, LOGIN_BLOCK_TIME - 1}

NoResponse == [endpoint |-> "none"]

NoFailures == [ip \in ClientIps |-> [n |-> 0, last |-> 0]]

(***************************************************************************)
(* The config directory and the backup directory under save and delete     *)
(* requests for one file name: the content of the file (disk), the         *)
(* contents copied to the backup directory so far (backups), where each    *)
(* request stands in saveConfigFile or deleteConfigFile (task), and the    *)
(* contents that a write or an unlink destroyed while the backup directory *)
(* held no copy of them (lost).                                            *)
(***************************************************************************)
VARIABLES disk, backups, task, lost

fileVars == <<disk, backups, task, lost>>

MaxRequests == 2

Requests == 1..MaxRequests

Absent == <<"absent">>
Original == <<"original">>

\* dumpYAML(config) for the config of a request
Dumped(request) == <<"config", request>>

IdleTask == [op |-> "none", pc |-> "idle", status |-> 0]

\* no request, and the file with the given content
FilesStart(content) ==
  /\ disk = content
  /\ backups = {}
  /\ task = [request \in Requests |-> IdleTask]
  /\ lost = {}

(***************************************************************************)
(* backend/services/yaml.service.js: the pool (workers, one thread for     *)
(* each slot), the threads that exist with what was posted to each, the    *)
(* number of threads made so far (spawned), the pending Map with the       *)
(* handlers of each accepted task, cursor, sequence and isShuttingDown,    *)
(* the messages of the threads on their way to the pool (outbox), the      *)
(* promise of each accepted task, and what the last call of runTask found  *)
(* and returned (lastCall).                                                *)
(***************************************************************************)
VARIABLES workers, threads, spawned, pending, handlers, cursor, sequence,
          isShuttingDown, outbox, promise, lastCall

yamlVars ==
  <<workers, threads, spawned, pending, handlers, cursor, sequence, isShuttingDown,
    outbox, promise, lastCall>>

\* YAML_WORKER_POOL_SIZE, YAML_MAX_PENDING and the number of tasks accepted
PoolSize == 2
MaxPending == 2
MaxTasks == 3

Slots == 0..(PoolSize - 1)

FreshThread == [state |-> "running", inbox |-> <<>>]

NoCall == [error |-> "none", id |-> 0, full |-> FALSE]

\* the pool after the module is loaded: createWorker() for each slot
YamlStart ==
  /\ workers = [slot \in Slots |-> slot + 1]
  /\ threads = [thread \in 1..PoolSize |-> FreshThread]
  /\ spawned = PoolSize
  /\ pending = {}
  /\ handlers = <<>>
  /\ cursor = 0
  /\ sequence = 0
  /\ isShuttingDown = FALSE
  /\ outbox = {}
  /\ promise = <<>>
  /\ lastCall = NoCall

\* the backend before any request, with the given configuration
AuthStart(enabled, ttl) ==
  /\ authEnabled = enabled
  /\ tokenTtl = ttl
  /\ now = 0
  /\ ticks = 0
  /\ loginAttempts = <<>>
  /\ issued = {}
  /\ loggedOut = {}
  /\ failures = NoFailures
  /\ response = NoResponse

(***************************************************************************)
(* The state of the config cache (cache.service.js), for one cache key (a  *)
(* file path and a modification time): what the LRU cache holds under the  *)
(* key (cache), the parse whose promise the inflight Map holds under it    *)
(* (inflight, 0 when none), the parse tasks started (parseTasks), and each  *)
(* caller of getConfigFromCache (callers).                                 *)
(***************************************************************************)
VARIABLES cache, inflight, parseTasks, callers

cacheVars == <<cache, inflight, parseTasks, callers>>

\* concurrent callers and parse tasks started
MaxCallers == 2
MaxParses == 3

Callers == 1..MaxCallers

IdleCaller == [pc |-> "idle", content |-> "none", during |-> {}, parse |-> 0, result |-> "none"]

\* the module after it is loaded: an empty cache and an empty inflight Map
CacheStart ==
  /\ cache = "none"
  /\ inflight = 0
  /\ parseTasks = <<>>
  /\ callers = [c \in Callers |-> IdleCaller]

(***************************************************************************)
(* The state: one use of the library.  A caller holds an input (arg, of   *)
(* the given kind), applies an operation to it (op, with the protocol of   *)
(* the parser or converter used) and holds what it returned (out); calls   *)
(* lists the parser and converter calls the dispatcher made.               *)
(***************************************************************************)
VARIABLES env, kind, arg, op, proto, out, calls

linkVars == <<env, kind, arg, op, proto, out, calls>>

vars == <<linkVars, authVars, fileVars, yamlVars, cacheVars>>

\* what an action of the library leaves alone
backend == <<authVars, fileVars, yamlVars, cacheVars>>

Init ==
  /\ AuthStart(FALSE, DEFAULT_TOKEN_TTL_MS)
  /\ FilesStart(Absent)
  /\ YamlStart
  /\ CacheStart
  /\ env \in Envs
  /\ \/ kind = "link" /\ arg \in LinkInputs
     \/ kind = "record" /\ arg \in RecordInputs
     \/ kind = "lines" /\ arg \in BatchInputs
     \/ kind = "authority" /\ arg \in AuthorityInputs
     \/ kind = "query" /\ arg \in QueryInputs
     \/ kind = "ssrmain" /\ arg \in SsrMainInputs
  /\ op = "init"
  /\ proto = <<>>
  /\ out = Undefined
  /\ calls = <<>>

\* node = parser.parse(arg) for the parser of protocol p
Parse(p, node) ==
  /\ kind = "link"
  /\ op = "init"
  /\ op' = "parse"
  /\ proto' = p
  /\ out' = node
  /\ UNCHANGED <<env, kind, arg, calls>>
  /\ UNCHANGED backend

ParseVLESS == Parse(P_vless, VLESSParser_parse(env, arg))
ParseVMess == Parse(P_vmess, VMessParser_parse(env, arg))
ParseSS == Parse(P_ss, SSParser_parse(env, arg))
ParseTrojan == Parse(P_trojan, TrojanParser_parse(arg))
ParseHysteria2 == Parse(P_hysteria2, Hysteria2Parser_parse(arg))
ParseSSR == Parse(P_ssr, SSRParser_parse(env, arg))
ParseHysteria == Parse(P_hysteria, HysteriaParser_parse(arg))
ParseTUIC == Parse(P_tuic, TUICParser_parse(env, arg))

\* the record a converter is given: the one the parser just returned, or the
\* one the caller holds
Node == IF op = "parse" THEN out ELSE arg

\* proxy = converter.convert(Node) for the converter of protocol p
Convert(p, proxy) ==
  /\ \/ op = "init" /\ kind = "record"
     \/ op = "parse" /\ proto = p
  /\ arg' = Node
  /\ kind' = "record"
  /\ op' = "convert"
  /\ proto' = p
  /\ out' = proxy
  /\ UNCHANGED <<env, calls>>
  /\ UNCHANGED backend

ConvertVLESS == Convert(P_vless, VLESSConverter_convert(Node))
ConvertVMess == Convert(P_vmess, VMessConverter_convert(Node))
ConvertSS == Convert(P_ss, SSConverter_convert(Node))
ConvertTrojan == Convert(P_trojan, TrojanConverter_convert(Node))
ConvertHysteria2 == Convert(P_hysteria2, Hysteria2Converter_convert(Node))
ConvertSSR == Convert(P_ssr, SSRConverter_convert(Node))
ConvertHysteria == Convert(P_hysteria, HysteriaConverter_convert(Node))
ConvertTUIC == Convert(P_tuic, TUICConverter_convert(Node))

ParseProxyLink ==
  /\ kind = "link"
  /\ op = "init"
  /\ op' = "link"
  /\ \E r \in {parseProxyLink(env, arg)} : out' = r.result /\ calls' = r.calls
  /\ UNCHANGED <<env, kind, arg, proto>>
  /\ UNCHANGED backend

ParseBatchProxyLinks ==
  /\ kind = "lines"
  /\ op = "init"
  /\ op' = "batch"
  /\ out' = parseBatchProxyLinks(env, arg)
  /\ UNCHANGED <<env, kind, arg, proto, calls>>
  /\ UNCHANGED backend

K_userinfo == S(<<"u", "s", "e", "r", "i", "n", "f", "o">>)

\* out = parseAuthority(arg)
ParseAuthority ==
  /\ kind = "authority"
  /\ op = "init"
  /\ op' = "authority"
  /\ \E a \in {parseAuthority(arg)} :
       out' = Obj(<< <<K_userinfo, a.userinfo>>, <<K_host, a.host>>, <<K_port, a.port>> >>)
  /\ UNCHANGED <<env, kind, arg, proto, calls>>
  /\ UNCHANGED backend

\* out = parseQuery(arg)
ParseQuery ==
  /\ kind = "query"
  /\ op = "init"
  /\ op' = "query"
  /\ out' = parseQuery(arg)
  /\ UNCHANGED <<env, kind, arg, proto, calls>>
  /\ UNCHANGED backend

K_method == S(<<"m", "e", "t", "h", "o", "d">>)
K_passwordB64 == S(<<"p", "a", "s", "s", "w", "o", "r", "d", "B", "6", "4">>)

\* out = parseSsrMain(arg, [])
ParseSsrMain ==
  /\ kind = "ssrmain"
  /\ op = "init"
  /\ op' = "ssrmain"
  /\ \E r \in {parseSsrMain(arg, <<>>)} :
       out' = Obj(<< <<K_server, Str(r.server)>>, <<K_port, r.port>>,
                     <<K_protocol, Str(r.protocol)>>, <<K_method, Str(r.method)>>,
                     <<K_obfs, Str(r.obfs)>>, <<K_password, Str(r.password)>>,
                     <<K_passwordB64, Str(r.passwordB64)>>, <<K_warnings, Arr(r.warnings)>> >>)
  /\ UNCHANGED <<env, kind, arg, proto, calls>>
  /\ UNCHANGED backend

Next ==
  \/ ParseVLESS \/ ParseVMess \/ ParseSS \/ ParseTrojan
  \/ ParseHysteria2 \/ ParseSSR \/ ParseHysteria \/ ParseTUIC
  \/ ConvertVLESS \/ ConvertVMess \/ ConvertSS \/ ConvertTrojan
  \/ ConvertHysteria2 \/ ConvertSSR \/ ConvertHysteria \/ ConvertTUIC
  \/ ParseProxyLink
  \/ ParseBatchProxyLinks
  \/ ParseAuthority
  \/ ParseQuery
  \/ ParseSsrMain

Spec == Init /\ [][Next]_vars

(***************************************************************************)
(* Properties of the parsers, the converters and the dispatcher            *)
(***************************************************************************)
SEP == S(<<":", "/", "/">>)

\* a record with string source, type, name and server, a numeric port, an
\* extras object and a warnings array
IsShaped(node) ==
  /\ node.t = "object"
  /\ \A key \in {K_source, K_type, K_name, K_server} : Get(node, key).t = "string"
  /\ Get(node, K_port).t = "number"
  /\ Get(node, K_extras).t = "object"
  /\ Get(node, K_warnings).t = "array"

\* C1: whatever string a parser is given (empty, white space, malformed
\* percent-encoding, Base64 or JSON), parse() returns a fully shaped record
ParsersTotal == op = "parse" => IsShaped(out)

\* a parser has returned a shaped record for a malformed percent-encoding
ParsersTotal_Witness ==
  /\ op = "parse"
  /\ proto = P_vmess
  /\ arg = Str(P_vless \o SEP \o S(<<"%", "E", "0", "%", "A", "4", "%", "A">>))
  /\ IsShaped(out)

\* C2: the port of every record a parser returns is an integer, 0 or 1..65535
PortInRange ==
  op = "parse" =>
    /\ Get(out, K_port).t = "number"
    /\ Get(out, K_port).k = "int"
    /\ Get(out, K_port).v \in 0..65535

\* a parser has read the port 65536 and returned 0
PortInRange_Witness ==
  /\ op = "parse"
  /\ proto = P_trojan
  /\ arg = Str(P_trojan \o SEP \o S(<<"p", "@", "h", ":", "6", "5", "5", "3", "6">>))
  /\ Get(out, K_port) = Num(0)

\* C3: the name of every record a parser returns is a non-empty string
NameNonEmpty ==
  op = "parse" => Get(out, K_name).t = "string" /\ Get(out, K_name).v # <<>>

\* a parser has named the record of a white-space input
NameNonEmpty_Witness ==
  /\ op = "parse"
  /\ arg = Str(<<CH_SP>>)
  /\ Get(out, K_name) = Str(P_hysteria)

\* C4: every record a parser returns carries extras.rawUrl as a string, for
\* normal parses, for empty or white-space input and on the catch path
RawUrlPresent ==
  op = "parse" => pick(pick(out, K_extras), K_rawUrl).t = "string"

\* the text before the first "://" of a link (the whole link when it has none)
BeforeSep(l) ==
  IF \E i \in 1..(Len(l) - 2) : SubSeq(l, i, i + 2) = SEP
  THEN SubSeq(l, 1, (CHOOSE i \in 1..(Len(l) - 2) :
                       /\ SubSeq(l, i, i + 2) = SEP
                       /\ \A j \in 1..(i - 1) : SubSeq(l, j, j + 2) # SEP) - 1)
  ELSE l

\* hy2 stands for hysteria2 and shadowsocks for ss
AliasOf(p) ==
  IF p = S(<<"h", "y", "2">>) THEN P_hysteria2
  ELSE IF p = S(<<"s", "h", "a", "d", "o", "w", "s", "o", "c", "k", "s">>) THEN P_ss
  ELSE p

\* the scheme token of a link, lower-cased and alias-resolved
CanonOf(l) == AliasOf(ToLowerCase(BeforeSep(l)))

\* the eight supported protocol identifiers
Supported == {P_vless, P_vmess, P_ss, P_trojan, P_hysteria2, P_ssr, P_hysteria, P_tuic}

\* C5: for a non-empty link whose scheme token, lower-cased and
\* alias-resolved, is a supported identifier c, parseProxyLink returns
\* success: true, a proxy of type c and exactly the parser's warnings
SupportedSchemeSucceeds ==
  op = "link" /\ arg.v # <<>> /\ CanonOf(arg.v) \in Supported =>
    /\ Get(out, K_success) = Bool(TRUE)
    /\ Get(Get(out, K_proxy), K_type) = Str(CanonOf(arg.v))
    /\ Get(out, K_warnings)
         = Get(ParserCall(env, CanonOf(arg.v), Str(Trim(arg.v))), K_warnings)

\* an alias with a malformed body has been dispatched to its parser
SupportedSchemeSucceeds_Witness ==
  /\ op = "link"
  /\ arg = Str(S(<<"h", "y", "2">>) \o SEP \o <<CH_PCT>>)
  /\ Get(out, K_success) = Bool(TRUE)
  /\ Get(Get(out, K_proxy), K_type) = Str(P_hysteria2)
  /\ Get(out, K_warnings).v # <<>>

\* C6: for a link whose scheme token t (trimmed, lower-cased and
\* alias-resolved; not empty) is no supported identifier, parseProxyLink
\* returns success: false with the unsupported-protocol message naming t, and
\* calls no parser and no converter
UnsupportedSchemeNamed ==
  op = "link" /\ Trim(BeforeSep(Trim(arg.v))) # <<>>
              /\ AliasOf(ToLowerCase(Trim(BeforeSep(Trim(arg.v))))) \notin Supported =>
    /\ out = Failure(UnsupportedPrefix \o AliasOf(ToLowerCase(Trim(BeforeSep(Trim(arg.v))))))
    /\ calls = <<>>

\* C7: parseProxyLink returns success: false exactly when the scheme token
\* (trimmed, lower-cased, alias-resolved) is no supported identifier; every
\* other link, however malformed, is reported as success: true
FailureOnlyForUnknownScheme ==
  op = "link" =>
    (Get(out, K_success) = Bool(FALSE)
       <=> AliasOf(ToLowerCase(Trim(BeforeSep(Trim(arg.v))))) \notin Supported)

\* a link with an unknown scheme has failed, with no parser called
FailureOnlyForUnknownScheme_Witness ==
  /\ op = "link"
  /\ arg = Str(S(<<"f", "o", "o", "b", "a", "r">>) \o SEP \o <<CH_AT>>)
  /\ Get(out, K_success) = Bool(FALSE)
  /\ calls = <<>>

\* the lines of the batch, each trimmed as the callback trims it
Lines == BatchLines(arg)
Trimmed(i) == Trim(ToStr(Or(Lines[i], Str(<<>>))))
\* a line that is not blank and contains "://"
Qualifies(i) ==
  Trimmed(i) # <<>> /\ \E k \in 1..(Len(Trimmed(i)) - 2) : SubSeq(Trimmed(i), k, k + 2) = SEP
Succeeds(i) == Get(parseProxyLink(env, Str(Trimmed(i))).result, K_success) = Bool(TRUE)
OkLines == {i \in 1..Len(Lines) : Qualifies(i) /\ Succeeds(i)}
BadLines == {i \in 1..Len(Lines) : Qualifies(i) /\ ~Succeeds(i)}
\* the n-th least member of a set of positions
Nth(set, n) == CHOOSE i \in set : Cardinality({j \in set : j <= i}) = n

\* C8: a blank line or one without "://" adds nothing; every other line adds
\* one entry, to proxies when the single-link path succeeds on it and to
\* errors otherwise
BatchCounts ==
  op = "batch" =>
    /\ Len(Get(out, K_proxies).v) = Cardinality(OkLines)
    /\ Len(Get(out, K_errors).v) = Cardinality(BadLines)

\* a batch of three lines has given one proxy, one error and skipped a line
BatchCounts_Witness ==
  /\ op = "batch"
  /\ Len(Lines) = MaxLines
  /\ Cardinality(OkLines) = 1
  /\ Cardinality(BadLines) = 1
  /\ Len(Get(out, K_proxies).v) = 1
  /\ Len(Get(out, K_errors).v) = 1

\* C9: proxies lists the successful results in line order, and the errors
\* carry, in order, the 1-based positions of the failed lines in the input
BatchOrder ==
  op = "batch" =>
    /\ Get(out, K_proxies).v
         = [n \in 1..Cardinality(OkLines) |->
              Get(parseProxyLink(env, Str(Trimmed(Nth(OkLines, n)))).result, K_proxy)]
    /\ [n \in 1..Len(Get(out, K_errors).v) |-> Get(Get(out, K_errors).v[n], K_line)]
         = [n \in 1..Cardinality(BadLines) |-> Num(Nth(BadLines, n))]

\* after a skipped first line, the failed second line is reported as line 2
\* and the two proxies are in line order
BatchOrder_Witness ==
  /\ op = "batch"
  /\ Len(Lines) = MaxLines
  /\ ~Qualifies(1)
  /\ BadLines = {2}
  /\ OkLines = {3}
  /\ Get(Get(out, K_errors).v[1], K_line) = Num(2)

\* C10: for every input, a record or not, convert() returns an object with a
\* non-empty name, its protocol identifier as type, a string server and a
\* numeric port
ConvertersTotal ==
  op = "convert" =>
    /\ out.t = "object"
    /\ Get(out, K_name).t = "string" /\ Get(out, K_name).v # <<>>
    /\ Get(out, K_type) = Str(proto)
    /\ Get(out, K_server).t = "string"
    /\ Get(out, K_port).t = "number"

\* a converter has been given a value that is no record
ConvertersTotal_Witness ==
  /\ op = "convert"
  /\ arg \in NonRecords
  /\ proto = P_ssr
  /\ Get(out, K_name) = Str(P_ssr)

\* what the documentation says of the record parsed from the clean VLESS
\* link, its warnings aside
CleanVlessFields ==
  /\ Get(out, K_type) = Str(P_vless)
  /\ Get(out, K_server) = Str(S(<<"e", "x", "a", "m", "p", "l", "e", ".", "c", "o", "m">>))
  /\ Get(out, K_port) = Num(443)
  /\ Get(out, K_uuid) = Str(S(<<"1", "1", "1", "1", "1", "1", "1", "1", "-", "2", "2", "2", "2", "-", "3", "3", "3", "3", "-", "4", "4", "4", "4", "-", "5", "5", "5", "5", "5", "5", "5", "5", "5", "5", "5", "5">>))
  /\ Get(Get(out, K_tls), K_enabled) = Bool(TRUE)
  /\ Get(Get(out, K_tls), K_security) = Str(S(<<"t", "l", "s">>))
  /\ Get(Get(out, K_tls), K_sni) = Str(S(<<"e", "x", "a", "m", "p", "l", "e", ".", "c", "o", "m">>))
  /\ Get(Get(out, K_transport), K_network) = Str(K_ws)
  /\ Get(Get(Get(out, K_transport), K_ws), K_path) = Str(S(<<"/", "w", "s">>))
  /\ Get(out, K_name) = Str(S(<<"M", "y", "N", "o", "d", "e">>))

\* C17: the VLESS parser turns the clean VLESS link into a record of type
\* vless for example.com:443 with the uuid of the link, tls enabled with
\* security tls and sni example.com, a ws transport of path /ws and the name
\* MyNode, and the warnings list of that record is empty
CleanVlessParsed ==
  (op = "parse" /\ proto = P_vless /\ arg = Str(CleanVlessLink)) =>
    (CleanVlessFields /\ Get(out, K_warnings) = Arr(<<>>))

\* the warning each of the three parsers pushes when it decodes a Base64 UUID
Base64UuidWarning ==
  [p \in UuidProtocols |->
     IF p = P_vless THEN Warn("vless: Base64 uuid")
     ELSE IF p = P_tuic THEN Warn("tuic: Base64 uuid")
     ELSE Warn("vmess: Base64 id")]

\* the parser of protocol p has parsed the link whose UUID field is the Base64
\* encoding of u
ParsedBase64Uuid(p, u) ==
  op = "parse" /\ proto = p /\ arg = Str(Base64UuidLinks[p][u])

\* the record parsed has uuid u and the warning of the Base64 encoding
RecoveredAs(p, u) ==
  /\ Get(out, K_uuid) = Str(u)
  /\ \E i \in 1..Len(Get(out, K_warnings).v) : Get(out, K_warnings).v[i] = Base64UuidWarning[p]

\* C18: for every standard UUID u, the record parsed from a VLESS, VMess or
\* TUIC link whose UUID field is the Base64 encoding of u has uuid u exactly,
\* and its warnings hold the warning of the non-standard Base64 encoding
Base64UuidRecovered ==
  \A p \in UuidProtocols : \A u \in StandardUuids :
    ParsedBase64Uuid(p, u) => RecoveredAs(p, u)

\* the same for the UUIDs isUuid accepts only: those of versions 1 to 5 whose
\* fourth group starts with 8, 9, a or b
Base64UuidRecoveredIfAccepted ==
  \A p \in UuidProtocols : \A u \in StandardUuids :
    (ParsedBase64Uuid(p, u) /\ isUuid(Str(u))) => RecoveredAs(p, u)

\* the VMess parser has recovered the upper-case UUID from the Base64 id of
\* the JSON, atob being the only decoder
Base64UuidRecoveredIfAccepted_Witness ==
  /\ env = "browser"
  /\ ParsedBase64Uuid(P_vmess, S(<<"F", "4", "7", "A", "C", "1", "0", "B", "-", "5", "8", "C", "C", "-", "4", "3", "7", "2", "-", "A", "5", "6", "7", "-", "0", "E", "0", "2", "B", "2", "C", "3", "D", "4", "7", "9">>))
  /\ RecoveredAs(P_vmess, S(<<"F", "4", "7", "A", "C", "1", "0", "B", "-", "5", "8", "C", "C", "-", "4", "3", "7", "2", "-", "A", "5", "6", "7", "-", "0", "E", "0", "2", "B", "2", "C", "3", "D", "4", "7", "9">>))

\* for the other UUIDs the parser returns the Base64 text itself as uuid, with
\* the warning of an illegal UUID
Base64UuidKeptIfRejected ==
  \A p \in UuidProtocols : \A u \in StandardUuids :
    (ParsedBase64Uuid(p, u) /\ ~isUuid(Str(u))) =>
      /\ Get(out, K_uuid) = Str(Base64Encode(u))
      /\ ~RecoveredAs(p, u)

\* the authority is a string with no userinfo, no leading "//" and no white
\* space around it: the whole of it is host and port
IsHostPort(x) ==
  /\ x.t = "string"
  /\ x.v # <<>>
  /\ ~Includes(x.v, <<CH_AT>>)
  /\ Trim(x.v) = x.v
  /\ ~StartsWith(x.v, <<CH_SLASH, CH_SLASH>>)

\* s is "[" h "]:" p for a host h without "]" and a port p written in decimal
\* digits whose value is in 1..65535
IsBracketedWithPort(s, h, p) ==
  /\ s = <<CH_LBRACKET>> \o h \o <<CH_RBRACKET, CH_COLON>> \o p
  /\ ~Includes(h, <<CH_RBRACKET>>)
  /\ AllDigits(p)
  /\ DigitsValue(p) \in 1..65535

\* C19: parseAuthority returns a bracketed IPv6 host without its brackets
\* together with the port that follows "]:"; for an unbracketed host with more
\* than one colon it returns the whole string as host and port null; and the
\* port it returns is always null or an integer in 1..65535
AuthorityHostPort ==
  op = "authority" =>
    /\ IsHostPort(arg) =>
          /\ \A i \in 2..Len(arg.v) : \A j \in (i + 2)..Len(arg.v) :
                IsBracketedWithPort(arg.v, SubSeq(arg.v, 2, i - 1), SubSeq(arg.v, j, Len(arg.v)))
                  => /\ Get(out, K_host) = Str(SubSeq(arg.v, 2, i - 1))
                     /\ Get(out, K_port) = Num(DigitsValue(SubSeq(arg.v, j, Len(arg.v))))
          /\ (arg.v[1] # CH_LBRACKET /\ CountChar(arg.v, CH_COLON) > 1)
                => (Get(out, K_host) = arg /\ Get(out, K_port) = Null)
    /\ \/ Get(out, K_port) = Null
       \/ /\ Get(out, K_port).t = "number"
          /\ Get(out, K_port).k = "int"
          /\ Get(out, K_port).v \in 1..65535

\* parseAuthority has been given "[2001:db8::1]:443" and has returned the host
\* 2001:db8::1 and the port 443
AuthorityHostPort_Witness ==
  /\ op = "authority"
  /\ arg = Str(S(<<"[", "2", "0", "0", "1", ":", "d", "b", "8", ":", ":", "1", "]", ":", "4", "4", "3">>))
  /\ Get(out, K_host) = Str(S(<<"2", "0", "0", "1", ":", "d", "b", "8", ":", ":", "1">>))
  /\ Get(out, K_port) = Num(443)

\* the pairs of the query text of x: the non-empty pieces between "&" and ";"
PairsOf(x) ==
  SelectSeq(SplitOn(QueryText(x), {CH_AMP, CH_SEMI}), LAMBDA part : part # <<>>)

\* the decoded text of a raw key or value: "+" is a space, then percent-decoding
DecodedText(raw) == safeDecodeURIComponent(Str(ReplaceChar(raw, CH_PLUS, CH_SP)))

\* the decoded key of a pair: what precedes its first "=", or the whole pair
DecodedKey(pair) ==
  DecodedText(IF Includes(pair, <<CH_EQ>>) THEN Slice(pair, 0, IndexOf(pair, <<CH_EQ>>)) ELSE pair)

\* the decoded value of a pair: what follows its first "=", or the empty string
DecodedValue(pair) ==
  IF Includes(pair, <<CH_EQ>>) THEN DecodedText(SliceFrom(pair, IndexOf(pair, <<CH_EQ>>) + 1)) ELSE <<>>

\* the decoded values, in input order, of the pairs of x whose decoded key is k
ValuesUnder(x, k) ==
  LET bearing == SelectSeq(PairsOf(x), LAMBDA pair : DecodedKey(pair) = k)
  IN  [i \in 1..Len(bearing) |-> Str(DecodedValue(bearing[i]))]

\* C20: what parseQuery records under a key is exactly the decoded values of
\* the pairs bearing that key, in input order: the value itself when the key
\* occurs once, the array of the values when it occurs more than once; a pair
\* without "=" gives the empty string, and a pair whose key decodes to the
\* empty string is dropped
QueryValuesInOrder ==
  op = "query" =>
    /\ out.t = "object"
    /\ ~HasKey(out, <<>>)
    /\ \A i \in 1..Len(out.v) : \A j \in 1..Len(out.v) : out.v[i][1] = out.v[j][1] => i = j
    /\ \A i \in 1..Len(out.v) : ValuesUnder(arg, out.v[i][1]) # <<>>
    /\ \A n \in 1..Len(PairsOf(arg)) :
         LET k == DecodedKey(PairsOf(arg)[n])
             values == ValuesUnder(arg, k)
         IN  k # <<>> =>
               Get(out, k) = IF Len(values) = 1 THEN values[1] ELSE Arr(values)

\* parseQuery has been given "a=1;%61=3=4;a=" and has recorded under a the
\* array of "1", "3=4" and the empty string
QueryValuesInOrder_Witness ==
  /\ op = "query"
  /\ arg = Str(S(<<"a", "=", "1", ";", "%", "6", "1", "=", "3", "=", "4", ";", "a", "=">>))
  /\ out = Obj(<< <<S(<<"a">>), Arr(<<Str(S(<<"1">>)), Str(S(<<"3", "=", "4">>)), Str(<<>>)>>)>> >>)

\* C21: for an ss link whose plugin value contains semicolons, literal or
\* percent-encoded, the record has the text before the first semicolon as
\* plugin and every key=value sub-option after it in pluginOpts, although
\* parseQuery splits the query at ";"
PluginKeptWhole ==
  \A c \in SsPluginCases :
    (op = "parse" /\ proto = P_ss /\ arg = Str(SsPluginLinks[c])) =>
      /\ Get(out, K_plugin) = Str(c.plugin)
      /\ Get(out, K_pluginOpts).t = "object"
      /\ Len(Get(out, K_pluginOpts).v) = Len(c.opts)
      /\ \A i \in 1..Len(c.opts) : Get(Get(out, K_pluginOpts), c.opts[i][1]) = Str(c.opts[i][2])

\* the ss parser has read plugin=obfs-local%3Bobfs%3Dhttp%3Bobfs-host%3Dexample.com
\* and has returned obfs-local with the two sub-options
PluginKeptWhole_Witness ==
  /\ op = "parse"
  /\ proto = P_ss
  /\ arg = Str(S(<<"s", "s", ":", "/", "/", "Y", "T", "p", "i", "@", "h", ".", "c", ":", "8", "3", "8", "8", "?", "p", "l", "u", "g", "i", "n", "=", "o", "b", "f", "s", "-", "l", "o", "c", "a", "l", "%", "3", "B", "o", "b", "f", "s", "%", "3", "D", "h", "t", "t", "p", "%", "3", "B", "o", "b", "f", "s", "-", "h", "o", "s", "t", "%", "3", "D", "e", "x", "a", "m", "p", "l", "e", ".", "c", "o", "m", "&", "x", "=", "1", "#", "n">>))
  /\ Get(out, K_plugin) = Str(S(<<"o", "b", "f", "s", "-", "l", "o", "c", "a", "l">>))
  /\ Get(out, K_pluginOpts) = Obj(<< <<S(<<"o", "b", "f", "s">>), Str(S(<<"h", "t", "t", "p">>))>>, <<S(<<"o", "b", "f", "s", "-", "h", "o", "s", "t">>), Str(S(<<"e", "x", "a", "m", "p", "l", "e", ".", "c", "o", "m">>))>> >>)

\* the fragment of the link a parser was given, percent-decoded and trimmed:
\* what follows the first "#" of the trimmed link
DecodedFragment ==
  LET s == Trim(asString(arg))
  IN  IF Includes(s, <<CH_HASH>>)
      THEN Trim(safeDecodeURIComponent(Str(SliceFrom(s, IndexOf(s, <<CH_HASH>>) + 1))))
      ELSE <<>>

\* the remark a VMess JSON (ps) or an SSR query (remarks) carries, as the
\* record keeps it in its extras; no other parser reads one
Remark ==
  IF proto = P_vmess THEN asString(Get(Get(out, K_extras), S(<<"p", "s">>)))
  ELSE IF proto = P_ssr THEN asString(Get(Get(out, K_extras), S(<<"r", "e", "m", "a", "r", "k", "s">>)))
  ELSE <<>>

\* the server of the record, or else the protocol identifier
ServerOrProtocol ==
  IF Get(out, K_server).v # <<>> THEN Get(out, K_server).v ELSE proto

IsZeroedRecord ==
  /\ Get(out, K_server) = Str(<<>>)
  /\ Get(out, K_port) = Num(0)
  /\ Get(out, K_name) = Str(proto)

NameFromSsrRemarks ==
  /\ op = "parse" /\ proto = P_ssr
  /\ DecodedFragment = <<>>
  /\ Remark # <<>>
  /\ Get(out, K_server).v # <<>>
  /\ Get(out, K_name) = Str(Remark)

\* a link with a fragment that a parser names by the fragment
NameFromFragment ==
  /\ op = "parse"
  /\ DecodedFragment # <<>>
  /\ ~IsZeroedRecord
  /\ Get(out, K_server).v # <<>>
  /\ Get(out, K_name) = Str(DecodedFragment)

\* the scheme token of the link a parser was given: the prefix
\* [A-Za-z][A-Za-z0-9+.-]* before the first ":" of the trimmed link, empty
\* when there is none
SchemeOfLink ==
  LET s == Trim(asString(arg))
  IN  SubSeq(s, 1, SchemeLen(s))

\* the names under which the dispatcher knows a protocol: its identifier and
\* its alias
KnownNames(p) ==
  {p} \cup {a \in {S(<<"h", "y", "2">>), S(<<"s", "h", "a", "d", "o", "w", "s", "o", "c", "k", "s">>)} : AliasOf(a) = p}

\* the warning of a scheme that is not the parser's
SchemeWarning(p) ==
  CASE p = P_vless -> Warn("vless: scheme is not vless")
    [] p = P_vmess -> Warn("vmess: scheme is not vmess")
    [] p = P_ss -> Warn("ss: scheme is not ss")
    [] p = P_trojan -> Warn("trojan: scheme is not trojan")
    [] p = P_hysteria2 -> Warn("hysteria2: scheme is not hysteria2/hy2")
    [] p = P_ssr -> Warn("ssr: scheme is not ssr")
    [] p = P_hysteria -> Warn("hysteria: scheme is not hysteria")
    [] p = P_tuic -> Warn("tuic: scheme is not tuic")

SchemeWarned ==
  \E i \in 1..Len(Get(out, K_warnings).v) : Get(out, K_warnings).v[i] = SchemeWarning(proto)

\* C23: a parser records the scheme warning exactly when the link has a scheme
\* token that, lower-cased, is neither the identifier of the parser's
\* protocol nor an alias of it (hy2, shadowsocks); either way the record it
\* returns is fully shaped
SchemeWarnedUnlessKnown ==
  op = "parse" =>
    /\ IsShaped(out)
    /\ SchemeWarned <=> (SchemeOfLink # <<>> /\ ToLowerCase(SchemeOfLink) \notin KnownNames(proto))

\* the same with the ss parser left out when it is given a shadowsocks link,
\* and the VMess parser when the scheme is not followed by "//"
SchemeWarnedUnlessKnownElsewhere ==
  (/\ op = "parse"
   /\ ~(proto = P_ss /\ ToLowerCase(SchemeOfLink) = S(<<"s", "h", "a", "d", "o", "w", "s", "o", "c", "k", "s">>))
   /\ ~(proto = P_vmess /\ ~StartsWithAt(Trim(asString(arg)), Len(SchemeOfLink) + 2, <<CH_SLASH, CH_SLASH>>)))
    => (SchemeWarned <=> (SchemeOfLink # <<>> /\ ToLowerCase(SchemeOfLink) \notin KnownNames(proto)))

\* the ss parser warns of the scheme of every shadowsocks link
ShadowsocksWarned ==
  (op = "parse" /\ proto = P_ss /\ ToLowerCase(SchemeOfLink) = S(<<"s", "h", "a", "d", "o", "w", "s", "o", "c", "k", "s">>)) => SchemeWarned

\* the ss parser has been given a shadowsocks link
ShadowsocksWarned_Witness ==
  /\ op = "parse" /\ proto = P_ss
  /\ SchemeOfLink = S(<<"s", "h", "a", "d", "o", "w", "s", "o", "c", "k", "s">>)
  /\ Get(out, K_server).v # <<>>
  /\ SchemeWarned

\* the hysteria2 parser has been given a hy2 link and has not warned
Hy2NotWarned ==
  /\ op = "parse" /\ proto = P_hysteria2
  /\ SchemeOfLink = S(<<"h", "y", "2">>)
  /\ Get(out, K_server).v # <<>>
  /\ ~SchemeWarned

\* the TLS tokens a security field may hold, by what they ask for
TlsOnTokens == {S(<<"t", "l", "s">>), S(<<"x", "t", "l", "s">>), S(<<"t", "r", "u", "e">>), S(<<"1">>), S(<<"o", "n">>)}
TlsRealityTokens == {S(<<"r", "e", "a", "l", "i", "t", "y">>)}
TlsOffTokens == {S(<<"n", "o", "n", "e">>), S(<<"f", "a", "l", "s", "e">>), S(<<"0">>), S(<<"o", "f", "f">>)}

SecurityIsCipher ==
  /\ op = "parse" /\ proto = P_vmess
  /\ arg = Str(VmessSecurityLinks[[json |-> S(<<"\"", "a", "e", "s", "-", "1", "2", "8", "-", "g", "c", "m", "\"">>), text |-> S(<<"a", "e", "s", "-", "1", "2", "8", "-", "g", "c", "m">>)]])
  /\ Get(out, K_cipher) = Str(S(<<"a", "e", "s", "-", "1", "2", "8", "-", "g", "c", "m">>))
  /\ Get(Get(out, K_tls), K_enabled) = Bool(FALSE)

\* the fields of a decoded main part: what the colons of the trimmed text
\* separate
SsrFields == SplitOn(Trim(asString(arg)), {CH_COLON})

\* the port a field stands for: its leading decimal number when that is in
\* 1..65535, otherwise 0
SsrPortOf(field) ==
  LET n == ParseInt(Trim(field))
  IN  IF n.t = "number" /\ n.k = "int" /\ n.v >= 1 /\ n.v <= 65535 THEN n ELSE Num(0)

\* C25: when the decoded main part has at least five colons, password, obfs,
\* method, protocol and port are its five last fields and server is all the
\* text before them, colons included; when it has fewer, the six fields are
\* empty or 0 and a warning is recorded
SsrFieldsFromTheRight ==
  (op = "ssrmain" /\ arg.t = "string") =>
    LET f == SsrFields
        n == Len(SsrFields)
    IN  IF n >= 6
        THEN /\ Get(out, K_passwordB64) = Str(Trim(f[n]))
             /\ Get(out, K_obfs) = Str(Trim(f[n - 1]))
             /\ Get(out, K_method) = Str(Trim(f[n - 2]))
             /\ Get(out, K_protocol) = Str(Trim(f[n - 3]))
             /\ Get(out, K_port) = SsrPortOf(f[n - 4])
             /\ Get(out, K_server) = Str(Trim(JoinWith(SubSeq(f, 1, n - 5), <<CH_COLON>>)))
        ELSE /\ \A key \in {K_passwordB64, K_password, K_obfs, K_method, K_protocol, K_server} :
                  Get(out, key) = Str(<<>>)
             /\ Get(out, K_port) = Num(0)
             /\ Get(out, K_warnings).v # <<>>

\* a main part with an IPv6 server: the server has kept its colons
SsrFieldsFromTheRight_Witness ==
  /\ op = "ssrmain"
  /\ arg = Str(S(<<"2", "0", "0", "1", ":", "d", "b", "8", ":", ":", "1", ":", "8", "3", "8", "8", ":", "o", "r", "i", "g", "i", "n", ":", "a", "e", "s", "-", "2", "5", "6", "-", "c", "f", "b", ":", "p", "l", "a", "i", "n", ":", "c", "H", "c">>))
  /\ Get(out, K_server) = Str(S(<<"2", "0", "0", "1", ":", "d", "b", "8", ":", ":", "1">>))
  /\ Get(out, K_port) = Num(8388)
  /\ Get(out, K_protocol) = Str(S(<<"o", "r", "i", "g", "i", "n">>))
  /\ Get(out, K_passwordB64) = Str(S(<<"c", "H", "c">>))

\* a main part of five fields: nothing is read from it
SsrTooFewFields ==
  /\ op = "ssrmain"
  /\ arg = Str(S(<<"h", ".", "c", ":", "8", "3", "8", "8", ":", "o", "r", "i", "g", "i", "n", ":", "a", "e", "s", "-", "2", "5", "6", "-", "c", "f", "b", ":", "p", "l", "a", "i", "n">>))
  /\ Get(out, K_server) = Str(<<>>)
  /\ Get(out, K_warnings).v # <<>>

\* the SSR parser has decoded the whole payload of case c: the record keeps
\* the payload and the text it encodes, and the remarks at its end when it
\* has some
SsrWhollyDecoded(c) ==
  LET extras == Get(out, K_extras)
  IN  /\ Get(extras, S(<<"r", "a", "w", "B", "a", "s", "e", "6", "4">>)) = Str(SsrPayload(c))
      /\ Get(extras, S(<<"r", "a", "w", "D", "e", "c", "o", "d", "e", "d", "T", "e", "x", "t">>)) = Str(c.main \o c.suffix)
      /\ c.suffix # <<>> => Get(extras, S(<<"r", "e", "m", "a", "r", "k", "s">>)) = Str(S(<<"r", "1">>))

\* C26: for an SSR link ssr://P or ssr://P#fragment whose P is made of the
\* characters of standard or URL-safe Base64, the parser decodes all of P:
\* extras.rawBase64 is P and the record is read from the text P encodes
SsrPayloadWhole ==
  \A c \in SsrCases :
    (op = "parse" /\ proto = P_ssr /\ arg = Str(SsrLinks[c])) => SsrWhollyDecoded(c)

\* the same for the payloads without "/"
SsrPayloadWholeWithoutSlash ==
  \A c \in SsrCases :
    (op = "parse" /\ proto = P_ssr /\ arg = Str(SsrLinks[c]) /\ ~Includes(SsrPayload(c), <<CH_SLASH>>))
      => SsrWhollyDecoded(c)

\* a payload without "/" has been decoded whole
SsrPayloadWholeWithoutSlash_Witness ==
  \E c \in SsrCases :
    /\ op = "parse" /\ proto = P_ssr /\ arg = Str(SsrLinks[c])
    /\ c.suffix # <<>> /\ c.fragment # <<>>
    /\ ~Includes(SsrPayload(c), <<CH_SLASH>>)
    /\ SsrWhollyDecoded(c)
    /\ Get(out, K_port) = Num(8388)

\* a payload with "/" is cut at the "/": rawBase64 is what precedes it
SsrPayloadCutAtSlash ==
  \A c \in SsrCases :
    (op = "parse" /\ proto = P_ssr /\ arg = Str(SsrLinks[c]) /\ Includes(SsrPayload(c), <<CH_SLASH>>))
      => Get(Get(out, K_extras), S(<<"r", "a", "w", "B", "a", "s", "e", "6", "4">>))
           = Str(SubSeq(SsrPayload(c), 1, IndexOf(SsrPayload(c), <<CH_SLASH>>)))

\* a payload with "/" has been parsed
SsrPayloadCutAtSlash_Witness ==
  \E c \in SsrCases :
    /\ op = "parse" /\ proto = P_ssr /\ arg = Str(SsrLinks[c])
    /\ Includes(SsrPayload(c), <<CH_SLASH>>)

\* the value of a parameter, empty when it is absent
ParamValue(choice) == IF choice = <<>> THEN <<>> ELSE choice[1]

\* the password the claim gives a case: the decoded userinfo, or else the
\* first non-empty value of password, auth, passwd
Hy2ExpectedPassword(c) ==
  IF c.userinfo # <<>> THEN safeDecodeURIComponent(Str(c.userinfo))
  ELSE IF ParamValue(c.password) # <<>> THEN ParamValue(c.password)
  ELSE IF ParamValue(c.auth) # <<>> THEN ParamValue(c.auth)
  ELSE ParamValue(c.passwd)

Hy2PasswordMissing ==
  \E i \in 1..Len(Get(out, K_warnings).v) :
    Get(out, K_warnings).v[i] = Warn("hysteria2: missing password")

\* C27: the Hysteria2 password is the percent-decoded userinfo when that is
\* non-empty, otherwise the first non-empty value of the query parameters
\* password, auth and passwd, in that order; the warning of a missing password
\* is recorded only when all four are empty or absent
Hy2PasswordPrecedence ==
  \A c \in Hy2PasswordCases :
    (op = "parse" /\ proto = P_hysteria2 /\ arg = Str(Hy2PasswordLinks[c])) =>
      /\ Get(out, K_password) = Str(Hy2ExpectedPassword(c))
      /\ Hy2PasswordMissing => Hy2ExpectedPassword(c) = <<>>

\* the parameter that decides when there is no userinfo: the first one
\* present, whether it has a value or not
Hy2FirstPresent(c) ==
  IF c.password # <<>> THEN c.password[1]
  ELSE IF c.auth # <<>> THEN c.auth[1]
  ELSE ParamValue(c.passwd)

\* what the parser does: the decoded userinfo, or else the first parameter
\* present among password, auth and passwd, empty or not
Hy2PasswordFirstPresent ==
  \A c \in Hy2PasswordCases :
    (op = "parse" /\ proto = P_hysteria2 /\ arg = Str(Hy2PasswordLinks[c])) =>
      LET expected == IF c.userinfo # <<>> THEN safeDecodeURIComponent(Str(c.userinfo))
                      ELSE Hy2FirstPresent(c)
      IN  /\ Get(out, K_password) = Str(expected)
          /\ Hy2PasswordMissing <=> expected = <<>>

\* a link with an empty password parameter and an auth parameter has been
\* parsed: the record has no password
Hy2PasswordFirstPresent_Witness ==
  /\ op = "parse" /\ proto = P_hysteria2
  /\ arg = Str(Hy2PasswordLinks[[userinfo |-> <<>>, password |-> << <<>> >>, auth |-> <<S(<<"a", "1">>)>>, passwd |-> <<>>]])
  /\ Get(out, K_password) = Str(<<>>)
  /\ Hy2PasswordMissing

\* a link with an auth parameter only has been parsed: auth is the password
Hy2PasswordFromAuth ==
  /\ op = "parse" /\ proto = P_hysteria2
  /\ arg = Str(Hy2PasswordLinks[[userinfo |-> <<>>, password |-> <<>>, auth |-> <<S(<<"a", "1">>)>>, passwd |-> <<S(<<"d", "1">>)>>]])
  /\ Get(out, K_password) = Str(S(<<"a", "1">>))
  /\ ~Hy2PasswordMissing

\* what follows the last colon of the trimmed authority
AfterLastColon ==
  LET s == Trim(arg.v)
  IN  SliceFrom(s, LastIndexOf(s, <<CH_COLON>>) + 1)

\* the text is 1 to 5 decimal digits of a value in 1..65535, and the port
\* returned is that value
IsPortText(text) ==
  /\ Len(text) \in 1..5
  /\ AllDigits(text)
  /\ DigitsValue(text) \in 1..65535
  /\ Get(out, K_port) = Num(DigitsValue(text))

\* C30: parseAuthority returns a port only when what follows the colon after
\* the host is made of 1 to 5 decimal digits whose value is in 1..65535, for
\* a bracketed host as for a plain one; a text such as "443abc" gives no port
PortFromDigitsOnly ==
  (op = "authority" /\ arg.t = "string" /\ Get(out, K_port) # Null) =>
    /\ Includes(arg.v, <<CH_COLON>>)
    /\ IsPortText(AfterLastColon)

\* the same for the hosts that are not in brackets
PortFromDigitsOnlyUnbracketed ==
  (op = "authority" /\ arg.t = "string" /\ Get(out, K_port) # Null
     /\ ~Includes(arg.v, <<CH_LBRACKET>>)) =>
    /\ Includes(arg.v, <<CH_COLON>>)
    /\ IsPortText(AfterLastColon)

\* a plain host followed by ":443": the port is 443
PortFromDigitsOnlyUnbracketed_Witness ==
  /\ op = "authority"
  /\ arg = Str(S(<<"h", ".", "c", ":", "4", "4", "3">>))
  /\ Get(out, K_port) = Num(443)

\* a plain host followed by ":443abc": no port
PlainHostLettersAfterPort ==
  /\ op = "authority"
  /\ arg = Str(S(<<"h", ".", "c", ":", "4", "4", "3", "a", "b", "c">>))
  /\ Get(out, K_port) = Null

\* a bracketed host followed by ":443abc": the port is 443
BracketedHostLettersAfterPort ==
  /\ op = "authority"
  /\ arg = Str(S(<<"[", ":", ":", "1", "]", ":", "4", "4", "3", "a", "b", "c">>))
  /\ Get(out, K_host) = Str(S(<<":", ":", "1">>))
  /\ Get(out, K_port) = Num(443)

(***************************************************************************)
(* The backend under requests.  server.js mounts express.json() and then   *)
(* the routers of /api/auth, /api/files and /api/config; every route but   *)
(* status and login names authMiddleware before its validators and its     *)
(* controller.                                                             *)
(***************************************************************************)
\* the library is not in use
LinkIdle ==
  /\ env = "node"
  /\ kind = "none"
  /\ arg = Undefined
  /\ op = "idle"
  /\ proto = <<>>
  /\ out = Undefined
  /\ calls = <<>>

\* what a request to the API leaves alone
notAuth == <<linkVars, fileVars, yamlVars, cacheVars>>

AuthInit ==
  /\ LinkIdle
  /\ FilesStart(Absent)
  /\ YamlStart
  /\ CacheStart
  /\ \E enabled \in BOOLEAN, ttl \in {TEST_TOKEN_TTL_MS, DEFAULT_TOKEN_TTL_MS} :
       AuthStart(enabled, ttl)

\* what a client without the secret can make of a token: sign it with a
\* guessed key, or move its expiry and keep the signature
Forged(token) ==
  [token EXCEPT !.signature = Hmac("guess", <<token.header, token.payload>>)]

Extended(token) ==
  [token EXCEPT !.payload.expMs = @ + DEFAULT_TOKEN_TTL_MS,
                !.payload.exp = @ + DEFAULT_TOKEN_TTL_MS \div 1000]

\* the tokens a request may carry, in its cookie or in its Authorization header
Presentable ==
  {NoToken, NotAJwt, Forged(signJwt(AUTH_USERNAME, DEFAULT_TOKEN_TTL_MS, now, 0))}
  \cup issued \cup {Extended(token) : token \in issued}

\* express.json() hands a body it cannot parse to errorHandler with status 400
BodyError == [status |-> 400, error |-> "entity.parse.failed"]

\* the answer of authMiddleware when it does not call next()
AuthError(cookie, bearer) ==
  [status |-> 401,
   error |-> IF PresentedToken(cookie, bearer).shape = "none"
             THEN "Unauthorized" ELSE "Token expired or invalid"]

\* validateBody, validateParams and the upload middleware answer 400
ValidationError == [status |-> 400, error |-> "validation"]

\* the request answered (its route and the token it presented) and the
\* answer: status and error, whether the controller ran, and the cookie set;
\* for a login, whether the client address was due to be blocked and whether
\* the username and password given were right
Answer(endpoint, cookie, bearer, result, handled, setCookie) ==
  [endpoint |-> endpoint, presented |-> PresentedToken(cookie, bearer),
   status |-> result.status, error |-> result.error, handled |-> handled,
   setCookie |-> setCookie, due |-> FALSE, credentials |-> "none"]

\* GET /api/auth/status
AuthStatus ==
  /\ response = NoResponse
  /\ \E cookie \in Presentable, bearer \in Presentable :
       response' = Answer("GET /api/auth/status", cookie, bearer,
                          [status |-> 200, error |-> ""], TRUE, NoToken)
  /\ UNCHANGED <<authEnabled, tokenTtl, now, ticks, loginAttempts, issued, loggedOut, failures>>
  /\ UNCHANGED notAuth

\* the client address has MAX_LOGIN_ATTEMPTS failed logins in a row, each
\* less than LOGIN_BLOCK_TIME after the one before, and the last of them is
\* less than LOGIN_BLOCK_TIME ago
Due(clientIp) ==
  /\ failures[clientIp].n >= MAX_LOGIN_ATTEMPTS
  /\ now - failures[clientIp].last < LOGIN_BLOCK_TIME

\* failures after a login of clientIp answered with the given status
Counted(clientIp, status) ==
  [failures EXCEPT ![clientIp] =
     IF status = 200 THEN [n |-> 0, last |-> 0]
     ELSE IF status # 401 THEN @
     ELSE IF @.n > 0 /\ now - @.last < LOGIN_BLOCK_TIME
     THEN [n |-> IF @.n < MAX_LOGIN_ATTEMPTS THEN @.n + 1 ELSE @.n, last |-> now]
     ELSE [n |-> 1, last |-> now]]

\* the bodies of a login request: one that is not JSON, and objects whose
\* username and password are absent or empty (""), right or wrong
LoginBodies ==
  {[parses |-> FALSE, username |-> "", password |-> ""]}
  \cup [parses : {TRUE}, username : {"", AUTH_USERNAME, "wrong"},
        password : {"", AUTH_PASSWORD, "wrong"}]

\* POST /api/auth/login: express.json(), validateBody(loginSchema), login
Login ==
  /\ response = NoResponse
  /\ \E clientIp \in ClientIps, body \in LoginBodies :
    IF ~body.parses \/ body.username = "" \/ body.password = ""
    THEN /\ response' = [Answer("POST /api/auth/login", NoToken, NoToken,
                                IF body.parses THEN ValidationError ELSE BodyError,
                                FALSE, NoToken)
                         EXCEPT !.due = Due(clientIp)]
         /\ UNCHANGED <<authEnabled, tokenTtl, now, ticks, loginAttempts, issued, loggedOut, failures>>
         /\ UNCHANGED notAuth
    ELSE
      \E result \in {loginUser(authEnabled, loginAttempts, body.username, body.password,
                               clientIp, tokenTtl, now, Cardinality(issued) + 1)} :
        /\ result.status = 200 => Cardinality(issued) < MaxTokens
        /\ loginAttempts' = result.attempts
        /\ issued' = IF result.status = 200 THEN issued \cup {result.token} ELSE issued
        /\ failures' = Counted(clientIp, result.status)
        /\ response' = [Answer("POST /api/auth/login", NoToken, NoToken,
                               [status |-> result.status, error |-> ""], TRUE, result.token)
                        EXCEPT !.due = Due(clientIp),
                               !.credentials =
                                 IF body.username = AUTH_USERNAME /\ body.password = AUTH_PASSWORD
                                 THEN "right" ELSE "wrong"]
        /\ UNCHANGED <<authEnabled, tokenTtl, now, ticks, loggedOut>>
        /\ UNCHANGED notAuth

\* a route that names authMiddleware: express.json(), authMiddleware, the
\* validators of the route and its controller
Guarded(endpoint) ==
  /\ response = NoResponse
  /\ \E cookie \in Presentable, bearer \in Presentable, parses \in BOOLEAN, valid \in BOOLEAN :
       response' =
         IF ~parses THEN Answer(endpoint, cookie, bearer, BodyError, FALSE, NoToken)
         ELSE IF authMiddleware(authEnabled, cookie, bearer, now) # 0
         THEN Answer(endpoint, cookie, bearer, AuthError(cookie, bearer), FALSE, NoToken)
         ELSE IF ~valid THEN Answer(endpoint, cookie, bearer, ValidationError, FALSE, NoToken)
         ELSE Answer(endpoint, cookie, bearer, [status |-> 200, error |-> ""], TRUE, NoToken)
  /\ UNCHANGED <<authEnabled, tokenTtl, now, ticks, loginAttempts, issued, loggedOut, failures>>
  /\ UNCHANGED notAuth

ListFiles == Guarded("GET /api/files/list")
UploadFile == Guarded("POST /api/files/upload")
ReadFile == Guarded("GET /api/files/read/:filename")
SaveFile == Guarded("POST /api/files/save")
DeleteFile == Guarded("DELETE /api/files/:filename")
ParseConfig == Guarded("POST /api/config/parse")
ValidateConfig == Guarded("POST /api/config/validate")

\* GET /api/auth/verify: express.json(), authMiddleware, verify
Verify ==
  /\ response = NoResponse
  /\ \E cookie \in Presentable, bearer \in Presentable, parses \in BOOLEAN :
       response' =
         IF ~parses THEN Answer("GET /api/auth/verify", cookie, bearer, BodyError, FALSE, NoToken)
         ELSE IF authMiddleware(authEnabled, cookie, bearer, now) # 0
         THEN Answer("GET /api/auth/verify", cookie, bearer, AuthError(cookie, bearer), FALSE, NoToken)
         ELSE Answer("GET /api/auth/verify", cookie, bearer, [status |-> 200, error |-> ""], TRUE, NoToken)
  /\ UNCHANGED <<authEnabled, tokenTtl, now, ticks, loginAttempts, issued, loggedOut, failures>>
  /\ UNCHANGED notAuth

\* logoutToken(token): the service keeps no record of the tokens it signed
logoutToken(token) == TRUE

Cleared == [shape |-> "cleared"]

\* POST /api/auth/logout: express.json(), authMiddleware, logout
Logout ==
  /\ response = NoResponse
  /\ \E cookie \in Presentable, bearer \in Presentable, parses \in BOOLEAN :
       IF ~parses
       THEN /\ response' = Answer("POST /api/auth/logout", cookie, bearer, BodyError, FALSE, NoToken)
            /\ UNCHANGED loggedOut
       ELSE IF authMiddleware(authEnabled, cookie, bearer, now) # 0
       THEN /\ response' = Answer("POST /api/auth/logout", cookie, bearer,
                                  AuthError(cookie, bearer), FALSE, NoToken)
            /\ UNCHANGED loggedOut
       ELSE /\ logoutToken(PresentedToken(cookie, bearer))
            /\ response' = Answer("POST /api/auth/logout", cookie, bearer,
                                  [status |-> 200, error |-> ""], TRUE, Cleared)
            /\ loggedOut' = loggedOut \cup ({PresentedToken(cookie, bearer)} \cap issued)
  /\ UNCHANGED <<authEnabled, tokenTtl, now, ticks, loginAttempts, issued, failures>>
  /\ UNCHANGED notAuth

\* the client has the answer
Receive ==
  /\ response # NoResponse
  /\ response' = NoResponse
  /\ UNCHANGED <<authEnabled, tokenTtl, now, ticks, loginAttempts, issued, loggedOut, failures>>
  /\ UNCHANGED notAuth

\* time passes between two requests
Tick ==
  /\ response = NoResponse
  /\ ticks < MaxTicks
  /\ \E delay \in Delays : now' = now + delay
  /\ ticks' = ticks + 1
  /\ UNCHANGED response
  /\ UNCHANGED <<authEnabled, tokenTtl, loginAttempts, issued, loggedOut, failures>>
  /\ UNCHANGED notAuth

AuthNext ==
  \/ AuthStatus \/ Login \/ Verify \/ Logout
  \/ ListFiles \/ UploadFile \/ ReadFile \/ SaveFile \/ DeleteFile
  \/ ParseConfig \/ ValidateConfig
  \/ Receive \/ Tick

AuthSpec == AuthInit /\ [][AuthNext]_vars

(***************************************************************************)
(* Properties of the backend's authentication                              *)
(***************************************************************************)
OpenEndpoints == {"GET /api/auth/status", "POST /api/auth/login"}

\* an answer of a route other than status and login is in flight
GuardedAnswer == response.endpoint \notin OpenEndpoints \cup {"none"}

\* the request carried a token that the service signed and that has not
\* expired
CarriedValidToken ==
  /\ response.presented \in issued
  /\ now < response.presented.payload.expMs

BlockedAfterFiveFailures ==
  (response.endpoint = "POST /api/auth/login" /\ response.credentials # "none" /\ response.due)
    => (response.status = 429 /\ response.setCookie = NoToken)

\* a login with the right credentials, just before the block ends, is
\* answered 429
BlockedAfterFiveFailures_Witness ==
  /\ response.endpoint = "POST /api/auth/login"
  /\ response.due
  /\ response.credentials = "right"
  /\ response.status = 429
  /\ \E clientIp \in ClientIps : now - failures[clientIp].last = LOGIN_BLOCK_TIME - 1

\* C13 as stated: a request to a guarded route that presents a token given
\* to a successful logout is answered 401
LoggedOutTokenRejected ==
  (authEnabled /\ GuardedAnswer /\ response.presented \in loggedOut
     /\ response.error # "entity.parse.failed")
    => response.status = 401

(***************************************************************************)
(* backend/services/config.service.js and backup.service.js: saveConfigFile *)
(* and deleteConfigFile are async functions, and another request may run   *)
(* at each of their awaits                                                 *)
(***************************************************************************)
\* what a save or a delete leaves alone
notFiles == <<linkVars, authVars, yamlVars, cacheVars>>

FilesInit ==
  /\ LinkIdle
  /\ AuthStart(FALSE, DEFAULT_TOKEN_TTL_MS)
  /\ YamlStart
  /\ CacheStart
  /\ \E content \in {Absent, Original} : FilesStart(content)

At(request, call, pc) == task[request].op = call /\ task[request].pc = pc

Goto(request, pc) == task' = [task EXCEPT ![request].pc = pc]

\* the request is answered with the status
Settle(request, status) ==
  task' = [task EXCEPT ![request].pc = "settled", ![request].status = status]

\* what fs.writeFile and fs.unlink destroy
Destroyed == IF disk # Absent /\ disk \notin backups THEN lost \cup {disk} ELSE lost

\* saveFile calls saveConfigFile(filename, config)
StartSave(request) ==
  /\ task[request].pc = "idle"
  /\ task' = [task EXCEPT ![request] = [op |-> "save", pc |-> "lstat", status |-> 0]]
  /\ UNCHANGED <<disk, backups, lost>>
  /\ UNCHANGED notFiles

\* deleteFile calls deleteConfigFile(filename)
StartDelete(request) ==
  /\ task[request].pc = "idle"
  /\ task' = [task EXCEPT ![request] = [op |-> "delete", pc |-> "lstat", status |-> 0]]
  /\ UNCHANGED <<disk, backups, lost>>
  /\ UNCHANGED notFiles

\* saveConfigFile: await fs.lstat(resolvedPath), ENOENT is caught
SaveLstat(request) ==
  /\ At(request, "save", "lstat")
  /\ Goto(request, "access")
  /\ UNCHANGED <<disk, backups, lost>>
  /\ UNCHANGED notFiles

\* resolveExistingPath: await fs.lstat(resolvedPath), ENOENT is a 404
DeleteLstat(request) ==
  /\ At(request, "delete", "lstat")
  /\ IF disk = Absent THEN Settle(request, 404) ELSE Goto(request, "access")
  /\ UNCHANGED <<disk, backups, lost>>
  /\ UNCHANGED notFiles

\* backupFileIfExists: await fs.access(filePath), return null when it fails
BackupAccess(request) ==
  /\ task[request].pc = "access"
  /\ Goto(request, IF disk # Absent THEN "copy"
                   ELSE IF task[request].op = "save" THEN "dump" ELSE "unlink")
  /\ UNCHANGED <<disk, backups, lost>>
  /\ UNCHANGED notFiles

\* backupFileIfExists: await fs.copyFile(filePath, backupPath)
BackupCopy(request) ==
  /\ task[request].pc = "copy"
  /\ IF disk = Absent
     THEN Settle(request, 500) /\ UNCHANGED backups
     ELSE /\ backups' = backups \cup {disk}
          /\ Goto(request, IF task[request].op = "save" THEN "dump" ELSE "unlink")
  /\ UNCHANGED <<disk, lost>>
  /\ UNCHANGED notFiles

\* fs.copyFile rejects: the backup directory cannot be written
BackupCopyFails(request) ==
  /\ task[request].pc = "copy"
  /\ Settle(request, 500)
  /\ UNCHANGED <<disk, backups, lost>>
  /\ UNCHANGED notFiles

\* saveConfigFile: await dumpYAML(config)
SaveDump(request) ==
  /\ At(request, "save", "dump")
  /\ Goto(request, "write")
  /\ UNCHANGED <<disk, backups, lost>>
  /\ UNCHANGED notFiles

\* dumpYAML rejects: the worker pool refuses or fails the task
SaveDumpFails(request) ==
  /\ At(request, "save", "dump")
  /\ Settle(request, 500)
  /\ UNCHANGED <<disk, backups, lost>>
  /\ UNCHANGED notFiles

\* saveConfigFile: await fs.writeFile(resolvedPath, yamlContent, 'utf8')
SaveWrite(request) ==
  /\ At(request, "save", "write")
  /\ lost' = Destroyed
  /\ disk' = Dumped(request)
  /\ Settle(request, 200)
  /\ UNCHANGED backups
  /\ UNCHANGED notFiles

\* deleteConfigFile: await fs.unlink(resolvedPath)
DeleteUnlink(request) ==
  /\ At(request, "delete", "unlink")
  /\ IF disk = Absent
     THEN Settle(request, 404) /\ UNCHANGED <<disk, lost>>
     ELSE lost' = Destroyed /\ disk' = Absent /\ Settle(request, 200)
  /\ UNCHANGED backups
  /\ UNCHANGED notFiles

\* the controller has answered, and the client may send another request
Answered(request) ==
  /\ task[request].pc = "settled"
  /\ task' = [task EXCEPT ![request] = IdleTask]
  /\ UNCHANGED <<disk, backups, lost>>
  /\ UNCHANGED notFiles

FilesNext ==
  \E request \in Requests :
    \/ StartSave(request) \/ StartDelete(request)
    \/ SaveLstat(request) \/ DeleteLstat(request)
    \/ BackupAccess(request) \/ BackupCopy(request) \/ BackupCopyFails(request)
    \/ SaveDump(request) \/ SaveDumpFails(request)
    \/ SaveWrite(request) \/ DeleteUnlink(request)
    \/ Answered(request)

FilesSpec == FilesInit /\ [][FilesNext]_vars

(***************************************************************************)
(* Properties of save and delete                                           *)
(***************************************************************************)
\* C14 as stated: under any interleaving of save and delete requests, the
\* content that a write or an unlink destroys has been copied to the backup
\* directory before
BackupBeforeOverwrite == lost = {}

(***************************************************************************)
(* The worker pool under tasks.  A task is slow when the thread cannot     *)
(* finish it within the task timeout; a thread works on what was posted to *)
(* it in order.                                                            *)
(***************************************************************************)
\* what the pool leaves alone
notYaml == <<linkVars, authVars, fileVars, cacheVars>>

YamlInit ==
  /\ LinkIdle
  /\ AuthStart(FALSE, DEFAULT_TOKEN_TTL_MS)
  /\ FilesStart(Absent)
  /\ YamlStart
  /\ CacheStart

Running(thread) == thread \in DOMAIN threads /\ threads[thread].state = "running"

\* f with the value at one more or one changed argument
With(f, key, value) == [k \in DOMAIN f \cup {key} |-> IF k = key THEN value ELSE f[k]]

Without(f, keys) == [k \in DOMAIN f \ keys |-> f[k]]

\* handlers.reject(error) for each of the tasks
Reject(ids, error) == [id \in DOMAIN promise |-> IF id \in ids THEN error ELSE promise[id]]

\* worker.terminate(): the thread stops and its exit event follows
Terminate(all, stopped) ==
  [thread \in DOMAIN all |->
     IF thread \in stopped THEN [state |-> "stopping", inbox |-> <<>>] ELSE all[thread]]

\* worker.postMessage(message): a thread that was terminated gets nothing
PostMessage(thread, id) ==
  IF Running(thread)
  THEN [threads EXCEPT ![thread].inbox = Append(@, id)]
  ELSE threads

\* a variant the pool does not use: it accepts one task more, and
\* PendingBounded fails under it
IsFullAbove(size) == size > MaxPending

\* pending.size >= maxPendingTasks
IsFull(size) == size >= MaxPending

\* the tasks that were accepted and whose promise is not settled
Unsettled == {id \in DOMAIN promise : promise[id] = "pending"}

\* runTask(action, payload, options)
RunTask ==
  \E slow \in BOOLEAN :
    IF isShuttingDown
    THEN /\ lastCall' = [error |-> "YAML worker pool is shutting down", id |-> 0,
                         full |-> Cardinality(Unsettled) >= MaxPending]
         /\ UNCHANGED <<workers, threads, spawned, pending, handlers, cursor, sequence,
                        isShuttingDown, outbox, promise>>
         /\ UNCHANGED notYaml
    ELSE IF IsFull(Cardinality(pending))
    THEN /\ lastCall' = [error |-> "Too many pending YAML tasks", id |-> 0,
                         full |-> Cardinality(Unsettled) >= MaxPending]
         /\ UNCHANGED <<workers, threads, spawned, pending, handlers, cursor, sequence,
                        isShuttingDown, outbox, promise>>
         /\ UNCHANGED notYaml
    ELSE /\ sequence < MaxTasks
         /\ sequence' = sequence + 1
         /\ cursor' = (cursor + 1) % PoolSize
         /\ pending' = pending \cup {sequence + 1}
         /\ handlers' = With(handlers, sequence + 1, [worker |-> workers[cursor], slow |-> slow])
         /\ promise' = With(promise, sequence + 1, "pending")
         /\ threads' = PostMessage(workers[cursor], sequence + 1)
         /\ lastCall' = [error |-> "", id |-> sequence + 1,
                         full |-> Cardinality(Unsettled) >= MaxPending]
         /\ UNCHANGED <<workers, spawned, isShuttingDown, outbox>>
         /\ UNCHANGED notYaml

\* yaml-worker.js, handleMessage: the thread answers the first message it
\* holds, with the result or with the error of js-yaml
Work(thread) ==
  /\ Running(thread)
  /\ threads[thread].inbox # <<>>
  /\ ~handlers[Head(threads[thread].inbox)].slow
  /\ \E success \in BOOLEAN :
       outbox' = outbox \cup {[id |-> Head(threads[thread].inbox), success |-> success]}
  /\ threads' = [threads EXCEPT ![thread].inbox = Tail(@)]
  /\ UNCHANGED <<workers, spawned, pending, handlers, cursor, sequence, isShuttingDown,
                 promise, lastCall>>
  /\ UNCHANGED notYaml

\* worker.on('message')
OnMessage(message) ==
  /\ message \in outbox
  /\ outbox' = outbox \ {message}
  /\ IF message.id \notin pending
     THEN UNCHANGED <<pending, promise>>
     ELSE /\ pending' = pending \ {message.id}
          /\ promise' = Reject({message.id}, IF message.success THEN "resolved" ELSE "failed")
  /\ UNCHANGED <<workers, threads, spawned, handlers, cursor, sequence, isShuttingDown, lastCall>>
  /\ UNCHANGED notYaml

\* the place of the task among the messages its thread holds, 0 when the
\* thread has answered it
Place(id) ==
  IF \E at \in 1..Len(threads[handlers[id].worker].inbox) :
       threads[handlers[id].worker].inbox[at] = id
  THEN CHOOSE at \in 1..Len(threads[handlers[id].worker].inbox) :
         threads[handlers[id].worker].inbox[at] = id
  ELSE 0

\* the task cannot be answered within the timeout: its thread was
\* terminated, or holds it behind a slow task
Held(id) ==
  \/ ~Running(handlers[id].worker)
  \/ /\ Place(id) > 0
     /\ handlers[Head(threads[handlers[id].worker].inbox)].slow

\* the timer of runTask fires; the messages that the threads have posted
\* reach the pool within the timeout
OnTimeout(id) ==
  /\ id \in pending
  /\ Held(id)
  /\ outbox = {}
  /\ pending' = pending \ {id}
  /\ promise' = Reject({id}, "YAML task timed out")
  /\ threads' = Terminate(threads, {handlers[id].worker})
  /\ UNCHANGED <<workers, spawned, handlers, cursor, sequence, isShuttingDown, outbox, lastCall>>
  /\ UNCHANGED notYaml

\* a variant the pool does not use: it finds no slot, and TimeoutRecovery
\* fails under it
indexOfNone(pool, thread) == -1

\* workers.indexOf(worker)
indexOf(pool, thread) ==
  IF \A slot \in Slots : pool[slot] # thread THEN -1
  ELSE CHOOSE index \in Slots :
         /\ pool[index] = thread
         /\ \A before \in Slots : pool[before] = thread => index <= before

\* worker.on('exit'): rejectPendingForWorker, and a new worker in the slot
OnExit(thread) ==
  /\ thread \in DOMAIN threads
  /\ threads[thread].state = "stopping"
  /\ pending' = {id \in pending : handlers[id].worker # thread}
  /\ promise' = Reject({id \in pending : handlers[id].worker = thread}, "YAML worker exited")
  /\ IF isShuttingDown \/ indexOf(workers, thread) < 0
     THEN /\ threads' = Without(threads, {thread})
          /\ UNCHANGED <<workers, spawned>>
     ELSE /\ spawned' = spawned + 1
          /\ workers' = [workers EXCEPT ![indexOf(workers, thread)] = spawned + 1]
          /\ threads' = With(Without(threads, {thread}), spawned + 1, FreshThread)
  /\ UNCHANGED <<handlers, cursor, sequence, isShuttingDown, outbox, lastCall>>
  /\ UNCHANGED notYaml

\* shutdownYamlWorkers()
Shutdown ==
  /\ ~isShuttingDown
  /\ isShuttingDown' = TRUE
  /\ pending' = {}
  /\ promise' = Reject(pending, "YAML worker pool is shutting down")
  /\ threads' = Terminate(threads, DOMAIN threads)
  /\ UNCHANGED <<workers, spawned, handlers, cursor, sequence, outbox, lastCall>>
  /\ UNCHANGED notYaml

YamlNext ==
  \/ RunTask
  \/ \E thread \in 1..(PoolSize + MaxTasks) : Work(thread) \/ OnExit(thread)
  \/ \E message \in outbox : OnMessage(message)
  \/ \E id \in 1..MaxTasks : OnTimeout(id)
  \/ Shutdown

YamlSpec == YamlInit /\ [][YamlNext]_vars

\* the event loop of the pool serves every event, and a thread every message
YamlLive ==
  /\ YamlSpec
  /\ \A thread \in 1..(PoolSize + MaxTasks) :
       WF_vars(Work(thread)) /\ WF_vars(OnExit(thread))
  /\ \A id \in 1..MaxTasks, success \in BOOLEAN :
       WF_vars(OnMessage([id |-> id, success |-> success]))

(***************************************************************************)
(* Properties of the worker pool                                           *)
(***************************************************************************)
TooMany == "Too many pending YAML tasks"

\* C15: never more than YAML_MAX_PENDING accepted tasks are unsettled, and a
\* call of runTask made while that many are unsettled returns the error
\* 'Too many pending YAML tasks', posts nothing to a thread and leaves the
\* pending Map and the sequence as they were
PendingBounded ==
  /\ [](Cardinality(Unsettled) <= MaxPending)
  /\ [][(lastCall' # lastCall /\ lastCall'.full)
          => /\ lastCall'.error = TooMany
             /\ lastCall'.id = 0
             /\ UNCHANGED <<pending, handlers, threads, sequence, promise, outbox>>]_vars

\* a call was refused with the pending Map full
PendingBounded_Witness ==
  /\ lastCall.full
  /\ lastCall.error = TooMany
  /\ Cardinality(pending) = MaxPending
  /\ Cardinality(Unsettled) = MaxPending

TimedOut(id) == id \in DOMAIN promise /\ promise[id] = "YAML task timed out"

\* the task is fast and pending, and its thread runs and holds no slow task
\* before it
Healthy(id) ==
  /\ id \in pending
  /\ ~handlers[id].slow
  /\ Running(handlers[id].worker)
  /\ Place(id) > 0
  /\ \A before \in 1..Place(id) : ~handlers[threads[handlers[id].worker].inbox[before]].slow

Completed(id) == id \in DOMAIN promise /\ promise[id] \in {"resolved", "failed"}

\* C16: a task that timed out is rejected with the timed-out error and its
\* thread runs no more; a slot only changes from a terminated thread to a
\* fresh one and, unless the pool is shutting down, always holds a thread
\* and comes to hold a running one; and a fast task given to a running
\* thread behind no slow task is answered by the thread, unless the pool is
\* shut down
TimeoutRecovery ==
  /\ [](\A id \in 1..MaxTasks : TimedOut(id) => (id \notin pending /\ ~Running(handlers[id].worker)))
  /\ [][\A slot \in Slots :
          workers'[slot] # workers[slot]
            => /\ threads[workers[slot]].state = "stopping"
               /\ workers'[slot] \notin DOMAIN threads
               /\ threads'[workers'[slot]] = FreshThread]_vars
  /\ [](\A slot \in Slots : ~isShuttingDown => workers[slot] \in DOMAIN threads)
  /\ \A slot \in Slots : (~Running(workers[slot])) ~> (Running(workers[slot]) \/ isShuttingDown)
  /\ \A id \in 1..MaxTasks : Healthy(id) ~> (Completed(id) \/ isShuttingDown)

\* the first task timed out on the first thread, a new thread is in its slot,
\* and a later task given to the new thread was resolved
TimeoutRecovery_Witness ==
  /\ TimedOut(1)
  /\ handlers[1].worker = 1
  /\ 1 \notin DOMAIN threads
  /\ workers[0] > PoolSize
  /\ Running(workers[0])
  /\ \E id \in DOMAIN promise : handlers[id].worker = workers[0] /\ promise[id] = "resolved"

(***************************************************************************)
(* The worker pool when the timer of a task may fire at any moment: before *)
(* the thread has answered, or between the answer of the thread and its    *)
(* arrival at the pool.                                                    *)
(***************************************************************************)
\* a variant the pool does not use: the timer finds every accepted task, and
\* SettledExactlyOnce fails under it
WaitingOrSettled(id) == id \in DOMAIN promise

\* pending.get(id) finds the handlers of the task
Waiting(id) == id \in pending

\* the callback of the timer of runTask, whenever it runs
TimerFires(id) ==
  /\ Waiting(id)
  /\ pending' = pending \ {id}
  /\ promise' = Reject({id}, "YAML task timed out")
  /\ threads' = Terminate(threads, {handlers[id].worker})
  /\ UNCHANGED <<workers, spawned, handlers, cursor, sequence, isShuttingDown, outbox, lastCall>>
  /\ UNCHANGED notYaml

YamlRacesNext ==
  \/ YamlNext
  \/ \E id \in 1..MaxTasks : TimerFires(id)

YamlRaces == YamlInit /\ [][YamlRacesNext]_vars

\* the event loop serves every event, a thread every message, and the timer
\* of a task that stays pending fires
YamlRacesLive ==
  /\ YamlRaces
  /\ \A thread \in 1..(PoolSize + MaxTasks) :
       WF_vars(Work(thread)) /\ WF_vars(OnExit(thread))
  /\ \A id \in 1..MaxTasks, success \in BOOLEAN :
       WF_vars(OnMessage([id |-> id, success |-> success]))
  /\ \A id \in 1..MaxTasks : WF_vars(TimerFires(id))

Accepted(id) == id \in DOMAIN promise

Settled(id) == id \in DOMAIN promise /\ promise[id] # "pending"

\* the message of the thread about the task that this step takes from the
\* outbox
Delivered(id, success) ==
  /\ [id |-> id, success |-> success] \in outbox
  /\ [id |-> id, success |-> success] \notin outbox'

notCache == <<linkVars, authVars, fileVars, yamlVars>>

CacheInit ==
  /\ LinkIdle
  /\ AuthStart(FALSE, DEFAULT_TOKEN_TTL_MS)
  /\ FilesStart(Absent)
  /\ YamlStart
  /\ CacheStart

\* the parse tasks that are not settled
PendingParses == {p \in 1..Len(parseTasks) : parseTasks[p].state = "pending"}

\* content || ...: a text is truthy, the empty text and undefined are not
ContentGiven(content) == content = "text"

\* parseYAML(yamlContent) and inflight.set(cacheKey, promise)
StartParse(c, content, via, during) ==
  /\ Len(parseTasks) < MaxParses
  /\ parseTasks' = Append(parseTasks, [state |-> "pending", via |-> via])
  /\ inflight' = Len(parseTasks) + 1
  /\ callers' = [callers EXCEPT ![c] = [@ EXCEPT !.pc = "awaiting", !.content = content,
                                                 !.during = during,
                                                 !.parse = Len(parseTasks) + 1]]
  /\ UNCHANGED cache

\* getConfigFromCache from the computation of the key to the first await
\* after it, or to its return
CacheLookup(c, content) ==
  IF cache = "object"
  THEN /\ callers' = [callers EXCEPT ![c] = [@ EXCEPT !.pc = "returned", !.content = content,
                                                      !.during = PendingParses,
                                                      !.result = "cached"]]
       /\ UNCHANGED <<cache, inflight, parseTasks>>
  ELSE IF inflight # 0
  THEN /\ callers' = [callers EXCEPT ![c] = [@ EXCEPT !.pc = "awaiting", !.content = content,
                                                      !.during = PendingParses,
                                                      !.parse = inflight]]
       /\ UNCHANGED <<cache, inflight, parseTasks>>
  ELSE IF ContentGiven(content)
  THEN StartParse(c, content, "given", PendingParses)
  ELSE /\ callers' = [callers EXCEPT ![c] = [@ EXCEPT !.pc = "reading", !.content = content,
                                                      !.during = PendingParses]]
       /\ UNCHANGED <<cache, inflight, parseTasks>>

\* getConfigFromCache(filePath, content, stats): with stats, as
\* readConfigFile calls it
Call(c) ==
  /\ callers[c].pc = "idle"
  /\ \E content \in {"text", "empty", "omitted"} : CacheLookup(c, content)
  /\ UNCHANGED notCache

\* getConfigFromCache(filePath, content): await fs.stat(filePath)
CallWithoutStats(c) ==
  /\ callers[c].pc = "idle"
  /\ \E content \in {"text", "empty", "omitted"} :
       callers' = [callers EXCEPT ![c] = [@ EXCEPT !.pc = "stat", !.content = content]]
  /\ UNCHANGED <<cache, inflight, parseTasks>>
  /\ UNCHANGED notCache

\* fs.stat has answered
StatDone(c) ==
  /\ callers[c].pc = "stat"
  /\ CacheLookup(c, callers[c].content)
  /\ UNCHANGED notCache

\* fs.readFile has answered
ReadDone(c) ==
  /\ callers[c].pc = "reading"
  /\ StartParse(c, callers[c].content, "read", callers[c].during)
  /\ UNCHANGED notCache

\* the promise of parseYAML settles: .then and .finally run, and the callers
\* that hold the promise get its outcome; js-yaml may return an object or a
\* falsy value
ParseSettles(p) ==
  /\ p \in PendingParses
  /\ \E outcome \in {"object", "falsy", "rejected"} :
       /\ parseTasks' = [parseTasks EXCEPT ![p].state = outcome]
       /\ cache' = IF outcome = "rejected" THEN cache ELSE outcome
       /\ callers' = [c \in Callers |->
                        IF callers[c].pc = "awaiting" /\ callers[c].parse = p
                        THEN [callers[c] EXCEPT !.pc = "returned", !.result = outcome]
                        ELSE callers[c]]
  /\ inflight' = 0
  /\ UNCHANGED notCache

\* the caller has its answer, and may call again
Return(c) ==
  /\ callers[c].pc = "returned"
  /\ callers' = [callers EXCEPT ![c] = IdleCaller]
  /\ UNCHANGED <<cache, inflight, parseTasks>>
  /\ UNCHANGED notCache

\* clearConfigCache(), or the entry expires
ClearCache ==
  /\ cache # "none"
  /\ cache' = "none"
  /\ UNCHANGED <<inflight, parseTasks, callers>>
  /\ UNCHANGED notCache

CacheNext ==
  \/ \E c \in Callers :
       \/ Call(c) \/ CallWithoutStats(c) \/ StatDone(c) \/ ReadDone(c) \/ Return(c)
  \/ \E p \in 1..MaxParses : ParseSettles(p)
  \/ ClearCache

CacheSpec == CacheInit /\ [][CacheNext]_vars

(***************************************************************************)
(* Properties of the config cache                                          *)
(***************************************************************************)
\* C29: whatever the content passed (a text, the empty text, none), at most
\* one parse task is unsettled for the key at any time, and a caller that
\* looked the key up while a parse was unsettled holds the promise of that
\* parse
ParsesDeduplicated ==
  /\ Cardinality(PendingParses) <= 1
  /\ \A c \in Callers :
       (callers[c].pc = "awaiting" /\ callers[c].during # {}) => callers[c].parse \in callers[c].during

\* two parse tasks are unsettled together only when some parse task was
\* started after a read of the file, that is by a caller without a truthy
\* content
TwoParsesOnlyAfterRead ==
  Cardinality(PendingParses) >= 2 => \E p \in 1..Len(parseTasks) : parseTasks[p].via = "read"

\* the callers all passed a text: one parse, and the second caller holds its
\* promise
ParsesDeduplicatedWithContent ==
  /\ Cardinality(PendingParses) = 1
  /\ \A c \in Callers :
       /\ callers[c].pc = "awaiting" /\ callers[c].content = "text"
       /\ callers[c].parse \in PendingParses

\* two callers of an empty file, each with its own parse task
TwoParsesOfEmptyFile ==
  /\ Cardinality(PendingParses) = 2
  /\ \A c \in Callers : callers[c].pc = "awaiting" /\ callers[c].content = "empty"
  /\ callers[1].parse # callers[2].parse
====
